---- MODULE Spec2Model ----
(***************************************************************************)
(* Model of the value-mapper plan node (iterator.ValueMapper: shape,       *)
(* Scanner and Index) and of the Gizmo path builder (pathObject) of        *)
(* cayley.                                                                 *)
(***************************************************************************)
EXTENDS Integers, Sequences, FiniteSets, TLC

\* ------------------------------------------------------------------------
\* Bounds
\* ------------------------------------------------------------------------
\* longest child result sequence that is enumerated
MaxLen == 3
\* largest number of Optimize passes a child shape needs to become stable
MaxPasses == 2
\* iteration bound of the optimize-until-stable caller loop
MaxIter == 4

\* ------------------------------------------------------------------------
\* Store adapter (graph.Namer): handles and domain values
\* ------------------------------------------------------------------------
\* graph.Ref nil
NoRef == "nil"
\* quad.Value nil
NilVal == "nilval"
\* handles the store issued; h3 is a second handle of the value of h2
Handles == {"h1", "h2", "h3"}
\* v3 is a value that is not present in the store
Vals == {"v1", "v2", "v3"}
StoredVals == {"v1", "v2"}

\* resolve: Handle -> Domain Value
NameOf(h) ==
    CASE h = "h1" -> "v1"
      [] h = "h2" -> "v2"
      [] h = "h3" -> "v2"
      [] OTHER -> NilVal

\* intern: Domain Value -> Handle or nil; nil (no value) is not found
ValueOf(v) ==
    CASE v = "v1" -> "h1"
      [] v = "v2" -> "h2"
      [] OTHER -> NoRef

\* ------------------------------------------------------------------------
\* Errors and cancellation signals
\* ------------------------------------------------------------------------
NoErr == "nil"
MapErr == "mapper failed"
SubErr == "child failed"
Canceled == "context canceled"
CloseErr == "close failed"

\* the contexts a caller passes: one that can be cancelled, one that cannot
Ctxs == {"ctx", "background"}
NoCtx == "none"

VARIABLES
    it,         \* the valueMapper shape: child shape, mapper function, store
    scan,       \* the valueMapperNext cursor obtained from it.Iterate()
    look,       \* the valueMapperContains cursor obtained from it.Lookup()
    cancelled,  \* whether the cancellable context has been cancelled
    out,        \* the results the Scanner delivered, in order
    dst,        \* the caller's destination map after a TagResults call
    last,       \* the last call made by the driver and what it returned
    pc,         \* position of the optimize-until-stable caller loop
    iter,       \* Optimize passes made by that loop
    objs,       \* the pathObjects of a Gizmo session: for each its path (a *path.Path)
    paths,      \* the path.Path objects: for each the slice header of its stack
    arrays,     \* the backing arrays of the stacks
    ret,        \* the pathObject the last builder call returned
    inp,        \* the arguments of a call that is evaluated on its own
    res,        \* what that call returned
    rec,        \* a recursive closure that is being evaluated, or a session
                \* with its options and its console
    refs        \* the cursors a caller of two evaluations holds

\* the state of the mapper evaluation, and of the path builder
mvars == <<it, scan, look, cancelled, out, dst, last, pc, iter>>
bvars == <<objs, paths, arrays, ret>>
\* the state of single calls, of a closure and of a second evaluation
fvars == <<inp, res, rec, refs>>
vars == <<it, scan, look, cancelled, out, dst, last, pc, iter, objs, paths, arrays, ret,
          inp, res, rec, refs>>

\* ctx.Done() is closed
Done(ctx) == ctx = "ctx" /\ cancelled

\* ValueMapperFunc: for every stored value a mapped value, or a failure
MapperOutcomes ==
    {[val |-> v, err |-> NoErr] : v \in Vals} \cup {[val |-> NilVal, err |-> MapErr]}
MapperFuncs == [StoredVals -> MapperOutcomes]

\* ------------------------------------------------------------------------
\* The child (graph.IteratorShape, graph.Scanner, graph.Index) the mapper
\* wraps: a shape that enumerates a sequence of handles, ends cleanly or
\* with an error, honours cancellation, and is rewritten by Optimize
\* without changing its result set
\* ------------------------------------------------------------------------
RECURSIVE SeqsUpTo(_)
SeqsUpTo(n) ==
    IF n = 0 THEN {<<>>}
    ELSE LET S == SeqsUpTo(n - 1)
         IN S \cup {Append(s, h) : s \in {t \in S : Len(t) = n - 1}, h \in Handles}

Reverse(s) == [i \in 1..Len(s) |-> s[Len(s) + 1 - i]]

SubShapes ==
    [items : SeqsUpTo(MaxLen), endErr : {NoErr, SubErr}, passes : 0..MaxPasses]

\* it.sub.Optimize(ctx): an unstable child is replaced by an equivalent one
\* that enumerates the same handles in another order
SubOptimize(sub) ==
    IF sub.passes > 0
    THEN [shape |-> [sub EXCEPT !.items = Reverse(sub.items), !.passes = sub.passes - 1],
          changed |-> TRUE]
    ELSE [shape |-> sub, changed |-> FALSE]

\* it.sub.Iterate() / it.sub.Lookup(): a fresh child cursor.  pos counts the
\* results consumed, path the alternate paths consumed for the current one;
\* call, ctx and ret record the last call the cursor received.
SubCursor(sub) ==
    [seq |-> sub.items, endErr |-> sub.endErr, pos |-> 0, path |-> 0,
     cur |-> NoRef, err |-> NoErr, closed |-> 0,
     call |-> "none", ctx |-> NoCtx, ret |-> FALSE]

\* number of alternate paths by which the child reaches a handle
AltPaths(h) == IF h = "h1" THEN 1 ELSE 0

\* sub.Next(ctx)
SubNext(c, ctx) ==
    LET c1 == [c EXCEPT !.call = "Next", !.ctx = ctx]
    IN IF Done(ctx) THEN [c1 EXCEPT !.err = Canceled, !.ret = FALSE]
       ELSE IF c.pos < Len(c.seq)
            THEN [c1 EXCEPT !.pos = c.pos + 1, !.path = 0,
                            !.cur = c.seq[c.pos + 1], !.ret = TRUE]
            ELSE [c1 EXCEPT !.err = c.endErr, !.cur = NoRef, !.ret = FALSE]

\* sub.Result()
SubResult(c) == c.cur

\* sub.NextPath(ctx)
SubNextPath(c, ctx) ==
    LET c1 == [c EXCEPT !.call = "NextPath", !.ctx = ctx]
    IN IF Done(ctx) THEN [c1 EXCEPT !.err = Canceled, !.ret = FALSE]
       ELSE IF c.cur # NoRef /\ c.path < AltPaths(c.cur)
            THEN [c1 EXCEPT !.path = c.path + 1, !.ret = TRUE]
            ELSE [c1 EXCEPT !.ret = FALSE]

\* sub.Contains(ctx, val)
SubContains(c, ctx, val) ==
    LET c1 == [c EXCEPT !.call = "Contains", !.ctx = ctx]
    IN IF Done(ctx) THEN [c1 EXCEPT !.err = Canceled, !.cur = NoRef, !.ret = FALSE]
       ELSE IF \E i \in 1..Len(c.seq) : c.seq[i] = val
            THEN [c1 EXCEPT !.cur = val, !.path = 0, !.ret = TRUE]
            ELSE [c1 EXCEPT !.err = c.endErr, !.cur = NoRef, !.ret = FALSE]

\* sub.Err()
SubErrOf(c) == c.err

\* sub.Close()
SubClose(c) == [c EXCEPT !.closed = c.closed + 1, !.call = "Close"]

\* the error sub.Close() returns: a child that ends with an error also fails
\* to release its resources
SubCloseErr(c) == IF c.endErr = NoErr THEN NoErr ELSE CloseErr

\* the bindings the child has for its current result on its current path
SubTags(c) ==
    IF c.cur = NoRef THEN <<>>
    ELSE ("t" :> c.cur) @@ ("via" :> (IF c.path = 0 THEN "h2" ELSE "h3"))

\* sub.TagResults(dst): the child's bindings written over dst
SubTagResults(c, d) == SubTags(c) @@ d

\* ------------------------------------------------------------------------
\* valueMapper: the shape
\* ------------------------------------------------------------------------
\* newValueMapper(qs, sub, mapper)
newValueMapper(qs, sub, mapper) == [sub |-> sub, qs |-> qs, mapper |-> mapper]

\* newValueMapperNext(qs, sub, mapper)
newValueMapperNext(qs, sub, mapper) ==
    [sub |-> sub, qs |-> qs, mapper |-> mapper, result |-> NoRef, err |-> NoErr]

\* newValueMapperContains(qs, sub, mapper)
newValueMapperContains(qs, sub, mapper) ==
    [sub |-> sub, qs |-> qs, mapper |-> mapper, result |-> NoRef, err |-> NoErr]

\* valueMapper.Iterate()
valueMapper_Iterate(node) == newValueMapperNext(node.qs, SubCursor(node.sub), node.mapper)

\* valueMapper.Lookup()
valueMapper_Lookup(node) == newValueMapperContains(node.qs, SubCursor(node.sub), node.mapper)

\* Optimize that drops the child's replacement
Optimize_KeepsOldSub(node) == [shape |-> node, changed |-> TRUE]

\* valueMapper.Optimize(ctx): the node itself and the changed flag
valueMapper_Optimize(node) ==
    LET r == SubOptimize(node.sub)
    IN [shape |-> IF r.changed THEN [node EXCEPT !.sub = r.shape] ELSE node,
        changed |-> TRUE]

\* Go integer division: the quotient is truncated toward zero
GoDiv(a, b) == IF a >= 0 THEN a \div b ELSE -((-a) \div b)

\* Stats that hands the child's exactness on
Stats_KeepsExact(st, err) ==
    [st |-> [st EXCEPT !.Size.Size = GoDiv(st.Size.Size, 2) + 1], err |-> err]

\* Stats that halves the child's size without adding one
Stats_NoFloor(st, err) ==
    [st |-> [st EXCEPT !.Size.Size = GoDiv(st.Size.Size, 2), !.Size.Exact = FALSE],
     err |-> err]

\* valueMapper.Stats(ctx), given what it.sub.Stats(ctx) returned: the costs
\* and the error it returns
valueMapper_Stats(st, err) ==
    [st |-> [st EXCEPT !.Size.Size = GoDiv(st.Size.Size, 2) + 1, !.Size.Exact = FALSE],
     err |-> err]

\* ------------------------------------------------------------------------
\* valueMapperNext: the Scanner
\* ------------------------------------------------------------------------
\* valueMapperNext.doMap(val): the cursor afterwards and the mapped value
valueMapperNext_doMap(c, val) ==
    LET qval == NameOf(val)
        o == c.mapper[qval]
    IN [it |-> IF o.err # NoErr THEN [c EXCEPT !.err = o.err] ELSE c,
        val |-> o.val]

\* Next that delivers the child's handle instead of the interned image
RECURSIVE Next_Unmapped(_, _)
Next_Unmapped(c, ctx) ==
    LET s == SubNext(c.sub, ctx)
        c1 == [c EXCEPT !.sub = s]
    IN IF s.ret
       THEN LET val == SubResult(s)
                m == valueMapperNext_doMap(c1, val)
                nval == ValueOf(m.val)
            IN IF nval # NoRef
               THEN [it |-> [m.it EXCEPT !.result = val], ret |-> TRUE]
               ELSE Next_Unmapped(m.it, ctx)
       ELSE [it |-> [c1 EXCEPT !.err = SubErrOf(s)], ret |-> FALSE]

\* Next that calls the child under a fresh background context
RECURSIVE Next_Background(_, _)
Next_Background(c, ctx) ==
    LET s == SubNext(c.sub, "background")
        c1 == [c EXCEPT !.sub = s]
    IN IF s.ret
       THEN LET val == SubResult(s)
                m == valueMapperNext_doMap(c1, val)
                nval == ValueOf(m.val)
            IN IF nval # NoRef
               THEN [it |-> [m.it EXCEPT !.result = nval], ret |-> TRUE]
               ELSE Next_Background(m.it, ctx)
       ELSE [it |-> [c1 EXCEPT !.err = SubErrOf(s)], ret |-> FALSE]

\* valueMapperNext.Next(ctx): the cursor afterwards and the returned flag
RECURSIVE valueMapperNext_Next(_, _)
valueMapperNext_Next(c, ctx) ==
    LET s == SubNext(c.sub, ctx)
        c1 == [c EXCEPT !.sub = s]
    IN IF s.ret
       THEN LET val == SubResult(s)
                m == valueMapperNext_doMap(c1, val)
                nval == ValueOf(m.val)
            IN IF nval # NoRef
               THEN [it |-> [m.it EXCEPT !.result = nval], ret |-> TRUE]
               ELSE valueMapperNext_Next(m.it, ctx)
       ELSE [it |-> [c1 EXCEPT !.err = SubErrOf(s)], ret |-> FALSE]

\* valueMapperNext.Err()
valueMapperNext_Err(c) == c.err

\* valueMapperNext.Result()
valueMapperNext_Result(c) == c.result

\* NextPath that takes the child's current handle as its own result
NextPath_MovesResult(c, ctx) ==
    LET s == SubNextPath(c.sub, ctx)
    IN [it |-> [c EXCEPT !.sub = s, !.result = SubResult(s)], ret |-> s.ret]

\* valueMapperNext.NextPath(ctx)
valueMapperNext_NextPath(c, ctx) ==
    LET s == SubNextPath(c.sub, ctx)
    IN [it |-> [c EXCEPT !.sub = s], ret |-> s.ret]

\* TagResults that also binds a tag of its own to the mapped result
TagResults_OwnTag(c, d) == ("mapped" :> c.result) @@ SubTagResults(c.sub, d)

\* valueMapperNext.TagResults(dst): dst afterwards
valueMapperNext_TagResults(c, d) == SubTagResults(c.sub, d)

\* Close that leaves the child cursor open and reports success
Close_LeavesChildOpen(c) == [it |-> c, ret |-> NoErr]

\* valueMapperNext.Close(): the cursor afterwards and the returned error
valueMapperNext_Close(c) ==
    [it |-> [c EXCEPT !.sub = SubClose(c.sub)], ret |-> SubCloseErr(c.sub)]

\* ------------------------------------------------------------------------
\* valueMapperContains: the Index
\* ------------------------------------------------------------------------
\* valueMapperContains.doMap(val)
valueMapperContains_doMap(c, val) ==
    LET qval == NameOf(val)
        o == c.mapper[qval]
    IN [it |-> IF o.err # NoErr THEN [c EXCEPT !.err = o.err] ELSE c,
        val |-> o.val]

\* Contains that probes the child with the candidate itself when the mapped
\* value has no handle
Contains_ProbesAnyway(c, ctx, val) ==
    LET m == valueMapperContains_doMap(c, val)
        nval == ValueOf(m.val)
        s == SubContains(m.it.sub, ctx, IF nval = NoRef THEN val ELSE nval)
        c1 == [m.it EXCEPT !.sub = s]
    IN IF nval = NoRef THEN [it |-> c1, ret |-> FALSE]
       ELSE IF ~s.ret
            THEN [it |-> [c1 EXCEPT !.err = SubErrOf(s)], ret |-> FALSE]
            ELSE [it |-> c1, ret |-> TRUE]

\* Contains that reports a child's negative answer as a plain non-match
Contains_MaskErr(c, ctx, val) ==
    LET m == valueMapperContains_doMap(c, val)
        nval == ValueOf(m.val)
    IN IF nval = NoRef
       THEN [it |-> m.it, ret |-> FALSE]
       ELSE LET s == SubContains(m.it.sub, ctx, nval)
            IN [it |-> [m.it EXCEPT !.sub = s], ret |-> s.ret]

\* valueMapperContains.Contains(ctx, val)
valueMapperContains_Contains(c, ctx, val) ==
    LET m == valueMapperContains_doMap(c, val)
        nval == ValueOf(m.val)
    IN IF nval = NoRef
       THEN [it |-> m.it, ret |-> FALSE]
       ELSE LET s == SubContains(m.it.sub, ctx, nval)
                c1 == [m.it EXCEPT !.sub = s]
            IN IF ~s.ret
               THEN [it |-> [c1 EXCEPT !.err = SubErrOf(s)], ret |-> FALSE]
               ELSE [it |-> c1, ret |-> TRUE]

\* valueMapperContains.Err()
valueMapperContains_Err(c) == c.err

\* valueMapperContains.Result()
valueMapperContains_Result(c) == c.result

\* valueMapperContains.NextPath(ctx)
valueMapperContains_NextPath(c, ctx) ==
    LET s == SubNextPath(c.sub, ctx)
    IN [it |-> [c EXCEPT !.sub = s], ret |-> s.ret]

\* valueMapperContains.TagResults(dst)
valueMapperContains_TagResults(c, d) == SubTagResults(c.sub, d)

\* valueMapperContains.Close(): the cursor afterwards and the returned error
valueMapperContains_Close(c) ==
    [it |-> [c EXCEPT !.sub = SubClose(c.sub)], ret |-> SubCloseErr(c.sub)]

\* ------------------------------------------------------------------------
\* The driver: one evaluation of a compiled mapper node
\* ------------------------------------------------------------------------
\* destination maps a caller hands to TagResults
DstMaps == {<<>>, ("t" :> "h3") @@ ("k" :> "h1")}

\* no builder call has been made
NoRet == [obj |-> 0, recv |-> 0, kind |-> "none", val |-> "", via |-> 0]

NoCall ==
    [op |-> "none", ctx |-> NoCtx, done |-> FALSE, ret |-> FALSE, pos0 |-> 0,
     x |-> NoRef, din |-> <<>>, err |-> NoErr]

\* the scanner, respectively the index, exists and has not been closed
ScanOpen == Len(scan) = 1 /\ scan[1].sub.closed = 0
LookOpen == Len(look) = 1 /\ look[1].sub.closed = 0

\* no single call, no closure and no second evaluation
NoInp == [fn |-> "none"]
NoRes == [fn |-> "none"]
InitIdle ==
    /\ inp = NoInp
    /\ res = NoRes
    /\ rec = NoRes
    /\ refs = <<>>

InitShape ==
    /\ it \in {newValueMapper("qs", sub, m) : sub \in SubShapes, m \in MapperFuncs}
    /\ scan = <<>>
    /\ look = <<>>
    /\ cancelled = FALSE
    /\ out = <<>>
    /\ dst = <<>>
    /\ last = NoCall
    /\ objs = <<>>
    /\ paths = <<>>
    /\ arrays = <<>>
    /\ ret = NoRet
    /\ InitIdle

\* an evaluation of an optimized tree
Init ==
    /\ InitShape
    /\ it.sub.passes = 0
    /\ pc = "run"
    /\ iter = 0

Iterate ==
    /\ pc = "run" /\ Len(scan) = 0 /\ Len(look) = 0
    /\ scan' = <<valueMapper_Iterate(it)>>
    /\ last' = [NoCall EXCEPT !.op = "Iterate"]
    /\ UNCHANGED <<it, look, cancelled, out, pc, iter>>
    /\ UNCHANGED <<bvars, fvars>>
    /\ dst' = <<>>

Lookup ==
    /\ pc = "run" /\ Len(scan) = 0 /\ Len(look) = 0
    /\ look' = <<valueMapper_Lookup(it)>>
    /\ last' = [NoCall EXCEPT !.op = "Lookup"]
    /\ UNCHANGED <<it, scan, cancelled, out, pc, iter>>
    /\ UNCHANGED <<bvars, fvars>>
    /\ dst' = <<>>

\* the caller cancels the context
Cancel ==
    /\ pc = "run" /\ ~cancelled
    /\ Len(scan) + Len(look) = 1
    /\ cancelled' = TRUE
    /\ UNCHANGED <<it, scan, look, out, dst, last, pc, iter>>
    /\ UNCHANGED <<bvars, fvars>>

ScanNext ==
    /\ ScanOpen
    /\ \E ctx \in Ctxs :
        LET r == valueMapperNext_Next(scan[1], ctx)
        IN /\ scan' = <<r.it>>
           /\ out' = IF r.ret THEN Append(out, valueMapperNext_Result(r.it)) ELSE out
           /\ last' = [NoCall EXCEPT !.op = "Next", !.ctx = ctx, !.done = Done(ctx),
                                     !.ret = r.ret, !.pos0 = scan[1].sub.pos]
    /\ UNCHANGED <<it, look, cancelled, pc, iter>>
    /\ UNCHANGED <<bvars, fvars>>
    /\ dst' = <<>>

ScanNextPath ==
    /\ ScanOpen
    /\ \E ctx \in Ctxs :
        LET r == valueMapperNext_NextPath(scan[1], ctx)
        IN /\ scan' = <<r.it>>
           /\ last' = [NoCall EXCEPT !.op = "NextPath", !.ctx = ctx, !.done = Done(ctx),
                                     !.ret = r.ret, !.pos0 = scan[1].sub.pos]
    /\ UNCHANGED <<it, look, cancelled, out, pc, iter>>
    /\ UNCHANGED <<bvars, fvars>>
    /\ dst' = <<>>

ScanTagResults ==
    /\ ScanOpen
    /\ \E d \in DstMaps :
        /\ dst' = valueMapperNext_TagResults(scan[1], d)
        /\ last' = [NoCall EXCEPT !.op = "TagResults", !.din = d,
                                  !.pos0 = scan[1].sub.pos]
    /\ UNCHANGED <<it, scan, look, cancelled, out, pc, iter>>
    /\ UNCHANGED <<bvars, fvars>>

ScanClose ==
    /\ ScanOpen
    /\ LET r == valueMapperNext_Close(scan[1])
       IN /\ scan' = <<r.it>>
          /\ last' = [NoCall EXCEPT !.op = "Close", !.pos0 = scan[1].sub.pos,
                                    !.err = r.ret]
    /\ UNCHANGED <<it, look, cancelled, out, pc, iter>>
    /\ UNCHANGED <<bvars, fvars>>
    /\ dst' = <<>>

LookContains ==
    /\ LookOpen
    /\ \E ctx \in Ctxs, x \in Handles :
        LET r == valueMapperContains_Contains(look[1], ctx, x)
        IN /\ look' = <<r.it>>
           /\ last' = [NoCall EXCEPT !.op = "Contains", !.ctx = ctx, !.done = Done(ctx),
                                     !.ret = r.ret, !.x = x]
    /\ UNCHANGED <<it, scan, cancelled, out, pc, iter>>
    /\ UNCHANGED <<bvars, fvars>>
    /\ dst' = <<>>

LookNextPath ==
    /\ LookOpen
    /\ \E ctx \in Ctxs :
        LET r == valueMapperContains_NextPath(look[1], ctx)
        IN /\ look' = <<r.it>>
           /\ last' = [NoCall EXCEPT !.op = "NextPath", !.ctx = ctx, !.done = Done(ctx),
                                     !.ret = r.ret]
    /\ UNCHANGED <<it, scan, cancelled, out, pc, iter>>
    /\ UNCHANGED <<bvars, fvars>>
    /\ dst' = <<>>

LookTagResults ==
    /\ LookOpen
    /\ \E d \in DstMaps :
        /\ dst' = valueMapperContains_TagResults(look[1], d)
        /\ last' = [NoCall EXCEPT !.op = "TagResults", !.din = d]
    /\ UNCHANGED <<it, scan, look, cancelled, out, pc, iter>>
    /\ UNCHANGED <<bvars, fvars>>

LookClose ==
    /\ LookOpen
    /\ LET r == valueMapperContains_Close(look[1])
       IN /\ look' = <<r.it>>
          /\ last' = [NoCall EXCEPT !.op = "Close", !.err = r.ret]
    /\ UNCHANGED <<it, scan, cancelled, out, pc, iter>>
    /\ UNCHANGED <<bvars, fvars>>
    /\ dst' = <<>>

\* the optimize-until-stable loop of a caller: stop at the first pass that
\* reports no change, give up after MaxIter passes
CallerLoop(changed, n) ==
    IF ~changed THEN "stable"
    ELSE IF n >= MaxIter THEN "gaveup"
    ELSE "optimizing"

\* a tree that has not been optimized yet
InitOptimize ==
    /\ InitShape
    /\ pc = "optimizing"
    /\ iter = 0

\* one pass of the caller's loop: it.Optimize(ctx)
Optimize ==
    /\ pc = "optimizing" /\ iter < MaxIter
    /\ LET r == valueMapper_Optimize(it)
       IN /\ it' = r.shape
          /\ last' = [NoCall EXCEPT !.op = "Optimize", !.ret = r.changed]
          /\ iter' = iter + 1
          /\ pc' = CallerLoop(r.changed, iter + 1)
    /\ UNCHANGED <<scan, look, cancelled, out, dst>>
    /\ UNCHANGED <<bvars, fvars>>

NextOptimize == Optimize

SpecOptimize == InitOptimize /\ [][NextOptimize]_vars

Next ==
    \/ Iterate
    \/ Lookup
    \/ Cancel
    \/ ScanNext
    \/ ScanNextPath
    \/ ScanTagResults
    \/ ScanClose
    \/ LookContains
    \/ LookNextPath
    \/ LookTagResults
    \/ LookClose

Spec == Init /\ [][Next]_vars

\* ------------------------------------------------------------------------
\* Two evaluations of one mapper node: the cursors are objects on a heap
\* (scan, look) and the caller holds references to them
\* ------------------------------------------------------------------------
\* longest child result sequence when two cursors are open
MaxTwo == 2

\* Iterate that hands out the Scanner it made first
Iterate_Cached(heap, node) ==
    IF Len(heap) > 0 THEN [heap |-> heap, ref |-> 1]
    ELSE [heap |-> Append(heap, valueMapper_Iterate(node)), ref |-> Len(heap) + 1]

\* valueMapper.Iterate(): a newly allocated Scanner and the reference to it
Shape_Iterate(heap, node) ==
    [heap |-> Append(heap, valueMapper_Iterate(node)), ref |-> Len(heap) + 1]

\* valueMapper.Lookup(): a newly allocated Index and the reference to it
Shape_Lookup(heap, node) ==
    [heap |-> Append(heap, valueMapper_Lookup(node)), ref |-> Len(heap) + 1]

\* the cursor a reference points to
Deref(r) == IF r.kind = "scan" THEN scan[r.idx] ELSE look[r.idx]

\* a reference, with what Result() and Err() returned when the caller last
\* used it
Ref(kind, idx, c) ==
    [kind |-> kind, idx |-> idx, result |-> c.result, err |-> c.err]

InitTwo ==
    /\ InitShape
    /\ it.sub.passes = 0
    /\ Len(it.sub.items) <= MaxTwo
    /\ pc = "two"
    /\ iter = 0

\* the caller opens a Scanner
TwoIterate ==
    /\ pc = "two" /\ Len(refs) < 2
    /\ LET r == Shape_Iterate(scan, it)
       IN /\ scan' = r.heap
          /\ refs' = Append(refs, Ref("scan", r.ref, r.heap[r.ref]))
    /\ UNCHANGED <<it, look, cancelled, out, dst, last, pc, iter, inp, res, rec>>
    /\ UNCHANGED bvars

\* the caller opens an Index
TwoLookup ==
    /\ pc = "two" /\ Len(refs) < 2
    /\ LET r == Shape_Lookup(look, it)
       IN /\ look' = r.heap
          /\ refs' = Append(refs, Ref("look", r.ref, r.heap[r.ref]))
    /\ UNCHANGED <<it, scan, cancelled, out, dst, last, pc, iter, inp, res, rec>>
    /\ UNCHANGED bvars

\* the cursor of reference i is replaced by c, and the caller reads its
\* Result() and Err()
Stored(i, c) ==
    /\ IF refs[i].kind = "scan"
       THEN scan' = [scan EXCEPT ![refs[i].idx] = c] /\ look' = look
       ELSE look' = [look EXCEPT ![refs[i].idx] = c] /\ scan' = scan
    /\ refs' = [refs EXCEPT ![i].result = c.result, ![i].err = c.err]
    /\ UNCHANGED <<it, cancelled, out, dst, last, pc, iter, inp, res, rec>>
    /\ UNCHANGED bvars

TwoNext ==
    \E i \in 1..Len(refs) :
        /\ refs[i].kind = "scan" /\ Deref(refs[i]).sub.closed = 0
        /\ Stored(i, valueMapperNext_Next(Deref(refs[i]), "background").it)

TwoContains ==
    \E i \in 1..Len(refs), x \in Handles :
        /\ refs[i].kind = "look" /\ Deref(refs[i]).sub.closed = 0
        /\ Stored(i, valueMapperContains_Contains(Deref(refs[i]), "background", x).it)

TwoNextPath ==
    \E i \in 1..Len(refs) :
        /\ Deref(refs[i]).sub.closed = 0
        /\ Stored(i, IF refs[i].kind = "scan"
                     THEN valueMapperNext_NextPath(Deref(refs[i]), "background").it
                     ELSE valueMapperContains_NextPath(Deref(refs[i]), "background").it)

TwoClose ==
    \E i \in 1..Len(refs) :
        /\ Deref(refs[i]).sub.closed = 0
        /\ Stored(i, IF refs[i].kind = "scan"
                     THEN valueMapperNext_Close(Deref(refs[i])).it
                     ELSE valueMapperContains_Close(Deref(refs[i])).it)

NextTwo ==
    \/ TwoIterate
    \/ TwoLookup
    \/ TwoNext
    \/ TwoContains
    \/ TwoNextPath
    \/ TwoClose

SpecTwo == InitTwo /\ [][NextTwo]_vars

\* ------------------------------------------------------------------------
\* Calls that are evaluated on their own
\* ------------------------------------------------------------------------
\* the mapper evaluation and the path builder are at rest
InitCall ==
    /\ it = newValueMapper("qs", [items |-> <<>>, endErr |-> NoErr, passes |-> 0],
                           [v \in StoredVals |-> [val |-> v, err |-> NoErr]])
    /\ scan = <<>> /\ look = <<>> /\ cancelled = FALSE /\ out = <<>> /\ dst = <<>>
    /\ last = NoCall /\ pc = "call" /\ iter = 0
    /\ objs = <<>> /\ paths = <<>> /\ arrays = <<>> /\ ret = NoRet
    /\ res = NoRes /\ rec = NoRes /\ refs = <<>>

\* largest size a child estimates
MaxSize == 15

\* graph.IteratorCosts a child reports, with or without an error
SubStats ==
    [ContainsCost : 1..2, NextCost : {1},
     Size : [Size : 0..MaxSize, Exact : BOOLEAN]]

InitStats ==
    /\ InitCall
    /\ inp \in [fn : {"Stats"}, st : SubStats, err : {NoErr, SubErr}]

\* a caller asks the mapper node for its costs
Stats ==
    /\ inp.fn = "Stats" /\ res.fn = "none"
    /\ LET r == valueMapper_Stats(inp.st, inp.err)
       IN res' = [fn |-> "Stats", st |-> r.st, err |-> r.err]
    /\ UNCHANGED <<mvars, bvars, inp, rec, refs>>

NextStats == Stats

SpecStats == InitStats /\ [][NextStats]_vars

\* ------------------------------------------------------------------------
\* path.Path: a stack of morphisms kept in a Go slice.  A slice header is
\* (backing array, length, capacity); append writes in place while the
\* capacity allows and moves to a new array of twice the capacity otherwise.
\* ------------------------------------------------------------------------
\* an unused slot of a backing array
NoStep == [kind |-> "-", val |-> "", ref |-> 0]

\* the builder state handed through the calls
Builder == [objs |-> objs, paths |-> paths, arrays |-> arrays]

\* np.stack = append(np.stack, st)
GoAppend(b, pid, st) ==
    LET h == b.paths[pid]
    IN IF h.len < h.cap
       THEN [b EXCEPT !.arrays[h.arr][h.len + 1] = st, !.paths[pid].len = h.len + 1]
       ELSE LET ncap == IF h.cap = 0 THEN 1 ELSE 2 * h.cap
                na == [i \in 1..ncap |->
                         IF i <= h.len THEN b.arrays[h.arr][i]
                         ELSE IF i = h.len + 1 THEN st ELSE NoStep]
            IN [b EXCEPT !.arrays = Append(@, na),
                         !.paths[pid] = [arr |-> Len(b.arrays) + 1,
                                         len |-> h.len + 1, cap |-> ncap]]

\* path.StartMorphism(nodes...): a new path whose stack holds one morphism
StartMorphism(b, v) ==
    [b |-> [b EXCEPT !.arrays = Append(@, <<[kind |-> "is", val |-> v, ref |-> 0]>>),
                     !.paths = Append(@, [arr |-> Len(b.arrays) + 1, len |-> 1, cap |-> 1])],
     p |-> Len(b.paths) + 1]

\* Path.Clone(): a new path over the same stack, capped at its length
Path_Clone(b, pid) ==
    LET h == b.paths[pid]
    IN [b |-> [b EXCEPT !.paths = Append(@, [h EXCEPT !.cap = h.len])],
        p |-> Len(b.paths) + 1]

\* the copy every combinator of path.Path starts from: the receiver keeps its
\* stack capped at its length, the copy gets the slice as it was
Path_clone(b, pid) ==
    LET h == b.paths[pid]
    IN [b |-> [b EXCEPT !.paths = Append([@ EXCEPT ![pid].cap = h.len], h)],
        p |-> Len(b.paths) + 1]

\* a combinator of path.Path (Is, In, Out, ...): a new path, the receiver's
\* steps followed by the combinator's morphism
Path_Combinator(b, pid, st) ==
    LET c == Path_clone(b, pid)
    IN [b |-> GoAppend(c.b, c.p, st), p |-> c.p]

\* the step sequence a path denotes; a path given as predicate is denoted by
\* its own steps
RECURSIVE Denote(_, _, _)
Denote(ps, as, pid) ==
    [i \in 1..ps[pid].len |->
        LET st == as[ps[pid].arr][i]
        IN [kind |-> st.kind, val |-> st.val,
            via |-> IF st.ref = 0 THEN <<>> ELSE Denote(ps, as, st.ref)]]

\* ------------------------------------------------------------------------
\* Arguments of a Gizmo call: the values goja exports, and their conversions
\* ------------------------------------------------------------------------
\* an exported argument: t is its Go type, k the kind of a quad.Value, s its
\* text, n its number (a float64 is kept in halves), l the elements of a
\* slice, p the path of a *pathObject or the *path.Path itself
Arg(t) == [t |-> t, k |-> "", s |-> "", n |-> 0, l |-> <<>>, p |-> 0]
ArgNil == Arg("nil")
ArgStr(str) == [Arg("string") EXCEPT !.s = str]
ArgInt(i) == [Arg("int") EXCEPT !.n = i]
ArgFloat(halves) == [Arg("float64") EXCEPT !.n = halves]
ArgBool(str) == [Arg("bool") EXCEPT !.s = str]
ArgMap == Arg("map")
ArgList(l) == [Arg("[]interface{}") EXCEPT !.l = l]
ArgStrs(l) == [Arg("[]string") EXCEPT !.l = l]
ArgPathObject(pid) == [Arg("*pathObject") EXCEPT !.p = pid]
ArgPath(pid) == [Arg("*path.Path") EXCEPT !.p = pid]
Quad(k, str, i) == [Arg("quad.Value") EXCEPT !.k = k, !.s = str, !.n = i]

\* the panics and errors of the conversions
NoPanic == ""
errNotQuadValue == "not a quad.Value"
errUnsupported == "unsupported type"
errExpectedString == "expected string"
errNoVia == "expected predicate list"
errArgCount == "unexpected arguments count"
errUnknownType == "unsupported type (errUnknownType)"
errOnePredicate == "expected one predicate or path for recursive follow"

\* quad.StringToValue(v): <..> is an IRI, _:.. a blank node, anything else
\* a plain string
StringToValue(str) ==
    IF str = "<follows>" THEN Quad("iri", str, 0)
    ELSE IF str = "_:b" THEN Quad("bnode", str, 0)
    ELSE Quad("str", str, 0)

\* quad.StringOf(v)
StringOf(v) == v.s

\* unwrap(o)
RECURSIVE unwrap(_)
unwrap(o) ==
    IF o.t = "*pathObject" THEN ArgPath(o.p)
    ELSE IF o.t = "[]interface{}"
         THEN [o EXCEPT !.l = [i \in 1..Len(o.l) |-> unwrap(o.l[i])]]
         ELSE o

\* exportArgs(args)
exportArgs(args) == [i \in 1..Len(args) |-> unwrap(args[i])]

\* toInt(o)
toInt(o) == IF o.t = "int" THEN [n |-> o.n, ok |-> TRUE] ELSE [n |-> 0, ok |-> FALSE]

\* toQuadValue(o): the value and the error
toQuadValue(o) ==
    IF o.t = "quad.Value" THEN [qv |-> o, err |-> NoPanic]
    ELSE IF o.t = "string" THEN [qv |-> StringToValue(o.s), err |-> NoPanic]
    ELSE IF o.t = "bool" THEN [qv |-> Quad("bool", o.s, 0), err |-> NoPanic]
    ELSE IF o.t = "int" THEN [qv |-> Quad("int", "", o.n), err |-> NoPanic]
    ELSE IF o.t = "float64"
         THEN IF 2 * GoDiv(o.n, 2) = o.n
              THEN [qv |-> Quad("int", "", GoDiv(o.n, 2)), err |-> NoPanic]
              ELSE [qv |-> Quad("float", "", o.n), err |-> NoPanic]
    ELSE [qv |-> ArgNil, err |-> errNotQuadValue]

\* toQuadValues(objs): the values and the first error
RECURSIVE toQuadValues(_)
toQuadValues(os) ==
    IF Len(os) = 0 THEN [vals |-> <<>>, err |-> NoPanic]
    ELSE LET q == toQuadValue(Head(os))
         IN IF q.err # NoPanic THEN [vals |-> <<>>, err |-> q.err]
            ELSE LET r == toQuadValues(Tail(os))
                 IN IF r.err # NoPanic THEN r
                    ELSE [vals |-> <<q.qv>> \o r.vals, err |-> NoPanic]

\* toStrings(objs): the strings, or the panic
RECURSIVE toStrings(_)
toStrings(os) ==
    IF Len(os) = 0 THEN [out |-> <<>>, panic |-> NoPanic]
    ELSE LET o == Head(os)
             h == IF o.t = "string" THEN [out |-> <<o.s>>, panic |-> NoPanic]
                  ELSE IF o.t = "quad.Value" THEN [out |-> <<StringOf(o)>>, panic |-> NoPanic]
                  ELSE IF o.t = "[]string" THEN [out |-> o.l, panic |-> NoPanic]
                  ELSE IF o.t = "[]interface{}" THEN toStrings(o.l)
                  ELSE [out |-> <<>>, panic |-> errExpectedString]
         IN IF h.panic # NoPanic THEN h
            ELSE LET r == toStrings(Tail(os))
                 IN IF r.panic # NoPanic THEN r
                    ELSE [out |-> h.out \o r.out, panic |-> NoPanic]

\* the loop of toVia over the elements
RECURSIVE toViaElems(_)
toViaElems(via) ==
    IF Len(via) = 0 THEN [via |-> <<>>, panic |-> NoPanic]
    ELSE LET o == Head(via)
             q == toQuadValue(o)
             h == IF o.t = "*path.Path" THEN [via |-> <<o>>, panic |-> NoPanic]
                  ELSE IF o.t = "*pathObject" THEN [via |-> <<ArgPath(o.p)>>, panic |-> NoPanic]
                  ELSE IF q.err = NoPanic THEN [via |-> <<q.qv>>, panic |-> NoPanic]
                  ELSE [via |-> <<>>, panic |-> errUnsupported]
         IN IF h.panic # NoPanic THEN h
            ELSE LET r == toViaElems(Tail(via))
                 IN IF r.panic # NoPanic THEN r
                    ELSE [via |-> h.via \o r.via, panic |-> NoPanic]

\* toVia that loses every element but the first
RECURSIVE toVia_FirstOnly(_)
toVia_FirstOnly(via) ==
    IF Len(via) = 0 THEN [via |-> <<>>, panic |-> NoPanic]
    ELSE IF Len(via) = 1 /\ via[1].t = "nil" THEN [via |-> <<>>, panic |-> NoPanic]
    ELSE IF Len(via) = 1 /\ via[1].t = "[]interface{}" THEN toVia_FirstOnly(via[1].l)
    ELSE IF Len(via) = 1 /\ via[1].t = "[]string"
         THEN toVia_FirstOnly([i \in 1..Len(via[1].l) |-> ArgStr(via[1].l[i])])
    ELSE toViaElems(<<via[1]>>)

\* toVia(via): the normalised predicates, or the panic
RECURSIVE toVia(_)
toVia(via) ==
    IF Len(via) = 0 THEN [via |-> <<>>, panic |-> NoPanic]
    ELSE IF Len(via) = 1 /\ via[1].t = "nil" THEN [via |-> <<>>, panic |-> NoPanic]
    ELSE IF Len(via) = 1 /\ via[1].t = "[]interface{}" THEN toVia(via[1].l)
    ELSE IF Len(via) = 1 /\ via[1].t = "[]string"
         THEN toVia([i \in 1..Len(via[1].l) |-> ArgStr(via[1].l[i])])
    ELSE toViaElems(via)

\* toViaData(objs): predicates, tags, ok, or the panic of a conversion
toViaData(os) ==
    LET v == IF Len(os) # 0 THEN toVia(<<os[1]>>) ELSE [via |-> <<>>, panic |-> NoPanic]
        t == IF v.panic = NoPanic /\ Len(os) > 1 THEN toStrings(Tail(os))
             ELSE [out |-> <<>>, panic |-> NoPanic]
    IN [predicates |-> v.via, tags |-> t.out, ok |-> TRUE,
        panic |-> IF v.panic # NoPanic THEN v.panic ELSE t.panic]

\* toViaDepthData that takes a missing depth for a depth of one
toViaDepthData_DepthOne(os) ==
    LET v == IF Len(os) # 0 THEN toVia(<<os[1]>>) ELSE [via |-> <<>>, panic |-> NoPanic]
        d == IF Len(os) > 1 THEN toInt(os[2]) ELSE [n |-> 1, ok |-> FALSE]
        rest == IF Len(os) <= 1 THEN <<>>
                ELSE IF d.ok THEN Tail(Tail(os)) ELSE Tail(os)
        t == IF v.panic = NoPanic THEN toStrings(rest) ELSE [out |-> <<>>, panic |-> NoPanic]
    IN [predicates |-> v.via, maxDepth |-> d.n, tags |-> t.out, ok |-> TRUE,
        panic |-> IF v.panic # NoPanic THEN v.panic ELSE t.panic]

\* toViaDepthData(objs): predicates, maxDepth, tags, ok, or the panic of a
\* conversion
toViaDepthData(os) ==
    LET v == IF Len(os) # 0 THEN toVia(<<os[1]>>) ELSE [via |-> <<>>, panic |-> NoPanic]
        d == IF Len(os) > 1 THEN toInt(os[2]) ELSE [n |-> 0, ok |-> FALSE]
        rest == IF Len(os) <= 1 THEN <<>>
                ELSE IF d.ok THEN Tail(Tail(os)) ELSE Tail(os)
        t == IF v.panic = NoPanic THEN toStrings(rest) ELSE [out |-> <<>>, panic |-> NoPanic]
    IN [predicates |-> v.via, maxDepth |-> d.n, tags |-> t.out, ok |-> TRUE,
        panic |-> IF v.panic # NoPanic THEN v.panic ELSE t.panic]

\* ------------------------------------------------------------------------
\* pathObject: the Gizmo path builder
\* ------------------------------------------------------------------------
\* largest number of pathObjects a script creates
MaxObjs == 5

\* node arguments of V() and is()
NodeArgs == {"<bob>"}

\* pathObject.new(np)
pathObject_new(b, np) ==
    [b |-> [b EXCEPT !.objs = Append(@, np)], o |-> Len(b.objs) + 1]

\* pathObject.clonePath(): the receiver gets the clone, the original path is
\* returned to be continued
pathObject_clonePath(b, o) ==
    LET c == Path_Clone(b, b.objs[o])
    IN [b |-> [c.b EXCEPT !.objs[o] = c.p], p |-> b.objs[o]]

\* a morphism of path.Path: its kind, the predicates it follows, the tags it
\* binds to the predicate and the nodes it compares with
Morph(kind, via, tags, nodes) == [kind |-> kind, via |-> via, tags |-> tags, nodes |-> nodes]
NoMorph == Morph("-", <<>>, <<>>, <<>>)

\* Path.In(via...), Path.Out(via...), Path.Both(via...): no tags
Path_In(via) == Morph("in", via, <<>>, <<>>)
Path_Out(via) == Morph("out", via, <<>>, <<>>)
Path_Both(via) == Morph("both", via, <<>>, <<>>)

\* Path.Has(via, nodes...), Path.HasReverse(via, nodes...)
Path_Has(via, nodes) == Morph("has", <<via>>, <<>>, nodes)
Path_HasReverse(via, nodes) == Morph("hasReverse", <<via>>, <<>>, nodes)

\* Path.FollowRecursive(via, maxDepth, tags)
Path_FollowRecursive(via, maxDepth, tags) ==
    [kind |-> "followRecursive", via |-> <<via>>, tags |-> tags, nodes |-> <<>>,
     maxDepth |-> maxDepth]

\* the stack entry of a morphism: a single path given as predicate is kept
\* by reference
StackStep(m) ==
    [kind |-> m.kind, val |-> "",
     ref |-> IF Len(m.via) = 1 /\ m.via[1].t = "*path.Path" THEN m.via[1].p ELSE 0]

\* a call that panicked: nothing is built
Panicked(b, msg) == [b |-> b, o |-> 0, step |-> NoMorph, panic |-> msg]

\* a call that returned p.newVal(np) for the path made of np and the morphism
Built(b, o, m) ==
    LET c == pathObject_clonePath(b, o)
        n == Path_Combinator(c.b, c.p, StackStep(m))
        r == pathObject_new(n.b, n.p)
    IN [b |-> r.b, o |-> r.o, step |-> m, panic |-> NoPanic]

\* Is that continues the receiver itself
Is_ExtendsReceiver(b, o, v) ==
    LET n == Path_Combinator(b, b.objs[o], [kind |-> "is", val |-> v, ref |-> 0])
        r == pathObject_new(n.b, n.p)
    IN [b |-> [r.b EXCEPT !.objs[o] = n.p], o |-> r.o]

\* pathObject.Is(call)
pathObject_Is(b, o, v) ==
    LET c == pathObject_clonePath(b, o)
        n == Path_Combinator(c.b, c.p, [kind |-> "is", val |-> v, ref |-> 0])
    IN pathObject_new(n.b, n.p)

\* pathObject.inout(call, in): the tags toViaData returns are dropped
pathObject_inout(b, o, in, args) ==
    LET d == toViaData(exportArgs(args))
    IN IF d.panic # NoPanic THEN Panicked(b, d.panic)
       ELSE IF ~d.ok THEN Panicked(b, errNoVia)
       ELSE Built(b, o, IF in THEN Path_In(d.predicates) ELSE Path_Out(d.predicates))

\* pathObject.Both(call)
pathObject_Both(b, o, args) ==
    LET d == toViaData(exportArgs(args))
    IN IF d.panic # NoPanic THEN Panicked(b, d.panic)
       ELSE IF ~d.ok THEN Panicked(b, errNoVia)
       ELSE Built(b, o, Path_Both(d.predicates))

\* pathObject.FollowRecursive(call)
pathObject_FollowRecursive(b, o, args) ==
    LET d == toViaDepthData(exportArgs(args))
    IN IF d.panic # NoPanic THEN Panicked(b, d.panic)
       ELSE IF ~d.ok \/ Len(d.predicates) = 0 THEN Panicked(b, errNoVia)
       ELSE IF Len(d.predicates) # 1 THEN Panicked(b, errOnePredicate)
       ELSE Built(b, o, Path_FollowRecursive(d.predicates[1], d.maxDepth, <<>>))

\* typeCheck(s): the type name of a quad.Value
typeCheck(v) ==
    IF v.k \in {"iri", "bnode", "str", "int", "float", "bool", "time", "lang", "typed"}
    THEN v.k ELSE "unknown"

\* the function filterTypes.BuildIterator hands to iterator.NewValueFilter:
\* the verdict and the error
filterTypes_filter(types, val) ==
    LET vt == typeCheck(val)
    IN IF \E i \in 1..Len(types) : types[i] = vt
       THEN [ok |-> TRUE, err |-> NoPanic]
       ELSE [ok |-> FALSE, err |-> errUnknownType]

\* Path.Filters(filterTypes{types}): nodes holds the type names
Path_Filters(types) == Morph("filterTypes", <<>>, <<>>, types)

\* pathObject.Type(call)
pathObject_Type(b, o, args) ==
    LET a == exportArgs(args)
        t == toStrings(a)
    IN IF Len(a) = 0 THEN Panicked(b, errArgCount)
       ELSE IF t.panic # NoPanic THEN Panicked(b, t.panic)
       ELSE Built(b, o, Path_Filters(t.out))

\* pathObject.Literal(call)
pathObject_Literal(b, o) ==
    Built(b, o, Path_Filters(<<"str", "int", "float", "bool", "time", "lang", "typed">>))

\* pathObject.has(call, rev)
pathObject_has(b, o, rev, args) ==
    LET a == exportArgs(args)
    IN IF Len(a) = 0 THEN Panicked(b, errArgCount)
       ELSE LET q == toQuadValue(a[1])
                via == IF a[1].t = "*pathObject" THEN ArgPath(a[1].p) ELSE q.qv
                err == IF a[1].t = "*pathObject" THEN NoPanic ELSE q.err
                qv == toQuadValues(Tail(a))
            IN IF err # NoPanic THEN Panicked(b, err)
               ELSE IF qv.err # NoPanic THEN Panicked(b, qv.err)
               ELSE Built(b, o, IF rev THEN Path_HasReverse(via, qv.vals)
                                       ELSE Path_Has(via, qv.vals))

\* graphObject.NewV(call) / graphObject.NewM(): the first pathObject
InitPath ==
    /\ it = newValueMapper("qs", [items |-> <<>>, endErr |-> NoErr, passes |-> 0],
                           [v \in StoredVals |-> [val |-> v, err |-> NoErr]])
    /\ scan = <<>> /\ look = <<>> /\ cancelled = FALSE /\ out = <<>> /\ dst = <<>>
    /\ last = NoCall /\ pc = "build" /\ iter = 0
    /\ InitIdle
    /\ \E v \in NodeArgs \cup {""} :
        LET s == StartMorphism([objs |-> <<>>, paths |-> <<>>, arrays |-> <<>>], v)
            r == pathObject_new(s.b, s.p)
        IN /\ objs = r.b.objs /\ paths = r.b.paths /\ arrays = r.b.arrays
           /\ ret = [NoRet EXCEPT !.obj = r.o, !.kind = "is", !.val = v]

\* a script calls p.is(v)
PathIs ==
    /\ Len(objs) < MaxObjs
    /\ \E o \in 1..Len(objs), v \in NodeArgs :
        LET r == pathObject_Is(Builder, o, v)
        IN /\ objs' = r.b.objs /\ paths' = r.b.paths /\ arrays' = r.b.arrays
           /\ ret' = [obj |-> r.o, recv |-> o, kind |-> "is", val |-> v, via |-> 0]
    /\ UNCHANGED <<mvars, fvars>>

\* a script calls p.in(via) or p.out(via), via absent or the first pathObject
PathInOut ==
    /\ Len(objs) < MaxObjs
    /\ \E o \in 1..Len(objs), in \in BOOLEAN, via \in {0, 1} :
        LET args == IF via = 0 THEN <<>> ELSE <<ArgPathObject(objs[via])>>
            r == pathObject_inout(Builder, o, in, args)
        IN /\ objs' = r.b.objs /\ paths' = r.b.paths /\ arrays' = r.b.arrays
           /\ ret' = [obj |-> r.o, recv |-> o, kind |-> IF in THEN "in" ELSE "out",
                      val |-> "", via |-> IF via = 0 THEN 0 ELSE objs[via]]
    /\ UNCHANGED <<mvars, fvars>>

NextPath ==
    \/ PathIs
    \/ PathInOut

SpecPath == InitPath /\ [][NextPath]_vars

\* ------------------------------------------------------------------------
\* Single calls of in, out, both, has and hasReverse on the pathObject of
\* g.V(), with the arguments a script can pass
\* ------------------------------------------------------------------------
\* longest list a script passes as predicate argument
MaxList == 2

RECURSIVE SeqsOver(_, _)
SeqsOver(S, n) ==
    IF n = 0 THEN {<<>>}
    ELSE SeqsOver(S, n - 1) \cup
         {Append(q, x) : q \in {r \in SeqsOver(S, n - 1) : Len(r) = n - 1}, x \in S}

\* elements of a list argument
ListElems == {ArgNil, ArgStr("<follows>"), ArgInt(1), ArgMap, ArgPathObject(1)}

\* what a script passes as predicate argument
PredArgs ==
    {ArgNil, ArgStr("<follows>"), ArgStr("_:b"), ArgStr("pred"), ArgInt(1), ArgFloat(3),
     ArgFloat(4), ArgBool("true"), ArgMap, ArgPathObject(1), Quad("iri", "<status>", 0),
     ArgStrs(<<"<follows>", "pred">>),
     ArgList(<<ArgList(<<ArgStr("<follows>"), ArgInt(1)>>)>>)}
    \cup {ArgList(l) : l \in SeqsOver(ListElems, MaxList)}

\* what a script passes after the predicate argument
RestArgs ==
    {<<>>, <<ArgStr("tag")>>, <<ArgStr("tag"), ArgStr("t2")>>, <<ArgInt(1)>>,
     <<ArgStrs(<<"tag", "t2">>)>>}

ArgLists == {<<>>} \cup {<<a>> \o r : a \in PredArgs, r \in RestArgs}

\* a session in which a script has evaluated g.V()
InitSession ==
    /\ it = newValueMapper("qs", [items |-> <<>>, endErr |-> NoErr, passes |-> 0],
                           [v \in StoredVals |-> [val |-> v, err |-> NoErr]])
    /\ scan = <<>> /\ look = <<>> /\ cancelled = FALSE /\ out = <<>> /\ dst = <<>>
    /\ last = NoCall /\ pc = "call" /\ iter = 0
    /\ res = NoRes /\ rec = NoRes /\ refs = <<>>
    /\ LET g == StartMorphism([objs |-> <<>>, paths |-> <<>>, arrays |-> <<>>], "")
           r == pathObject_new(g.b, g.p)
       IN /\ objs = r.b.objs /\ paths = r.b.paths /\ arrays = r.b.arrays
          /\ ret = [NoRet EXCEPT !.obj = r.o, !.kind = "is"]

InitArgs ==
    /\ InitSession
    /\ inp \in [fn : {"in", "out", "both", "has", "hasReverse"}, args : ArgLists]

\* the call returned or panicked
Returned(r) ==
    /\ res' = [fn |-> inp.fn, step |-> r.step, panic |-> r.panic]
    /\ objs' = r.b.objs /\ paths' = r.b.paths /\ arrays' = r.b.arrays
    /\ ret' = IF r.panic # NoPanic THEN ret
              ELSE [NoRet EXCEPT !.obj = r.o, !.recv = 1, !.kind = inp.fn]
    /\ UNCHANGED <<mvars, inp, rec, refs>>

\* a script calls p.in(...) or p.out(...)
CallInOut ==
    /\ res.fn = "none" /\ inp.fn \in {"in", "out"}
    /\ Returned(pathObject_inout(Builder, 1, inp.fn = "in", inp.args))

\* a script calls p.both(...)
CallBoth ==
    /\ res.fn = "none" /\ inp.fn = "both"
    /\ Returned(pathObject_Both(Builder, 1, inp.args))

\* a script calls p.has(...) or p.hasReverse(...)
CallHas ==
    /\ res.fn = "none" /\ inp.fn \in {"has", "hasReverse"}
    /\ Returned(pathObject_has(Builder, 1, inp.fn = "hasReverse", inp.args))

NextArgs ==
    \/ CallInOut
    \/ CallBoth
    \/ CallHas

SpecArgs == InitArgs /\ [][NextArgs]_vars

\* ------------------------------------------------------------------------
\* Recursive closure: followRecursive(morphism, maxDepth) builds it, an
\* evaluation expands the frontier level by level
\* ------------------------------------------------------------------------
\* largest depth bound a script passes
MaxDepth == 3

\* the nodes of the graph and the edges the morphism follows
Nodes == {"A", "B", "C"}
Graphs == SUBSET (Nodes \X Nodes)

\* the handles the morphism reaches from a set of handles
Img(g, S) == {e[2] : e \in {f \in g : f[1] \in S}}

\* a closure that has not expanded anything.  Whether the start frontier
\* counts as visited is left open: both readings are evaluated.
NewClosure(g, start, maxDepth, seeded) ==
    [fn |-> "closure", graph |-> g, maxDepth |-> maxDepth, seeded |-> seeded,
     start |-> start, frontier |-> start,
     visited |-> IF seeded THEN start ELSE {},
     before |-> {}, result |-> {}, depth |-> 0, pc |-> "run"]

\* one round: stop at an empty frontier or at the depth bound, else apply
\* the morphism to the frontier, add the handles not visited before to the
\* result and make them the next frontier
RecursiveStep(r) ==
    IF r.frontier = {} \/ (r.maxDepth > 0 /\ r.depth >= r.maxDepth)
    THEN [r EXCEPT !.pc = "done"]
    ELSE LET new == Img(r.graph, r.frontier) \ r.visited
         IN [r EXCEPT !.result = r.result \cup new,
                      !.before = r.visited,
                      !.visited = r.visited \cup new,
                      !.frontier = new,
                      !.depth = r.depth + 1]

InitClosure ==
    /\ InitSession
    /\ inp \in [fn : {"followRecursive"},
                args : {<<ArgPathObject(1)>>}
                       \cup {<<ArgPathObject(1), ArgInt(d)>> : d \in 0..MaxDepth},
                graph : Graphs, start : SUBSET Nodes \ {{}}, seeded : BOOLEAN]

\* a script calls p.followRecursive(morphism) or (morphism, maxDepth)
CallFollowRecursive ==
    /\ res.fn = "none" /\ inp.fn = "followRecursive"
    /\ Returned(pathObject_FollowRecursive(Builder, 1, inp.args))

\* the evaluation of the path reaches the closure with a start frontier
StartClosure ==
    /\ res.fn = "followRecursive" /\ res.panic = NoPanic /\ rec.fn = "none"
    /\ rec' = NewClosure(inp.graph, inp.start, res.step.maxDepth, inp.seeded)
    /\ UNCHANGED <<mvars, bvars, inp, res, refs>>

\* one round of the closure
Expand ==
    /\ rec.fn = "closure" /\ rec.pc = "run"
    /\ rec' = RecursiveStep(rec)
    /\ UNCHANGED <<mvars, bvars, inp, res, refs>>

NextClosure ==
    \/ CallFollowRecursive
    \/ StartClosure
    \/ Expand

SpecClosure == InitClosure /\ [][NextClosure]_vars

\* ------------------------------------------------------------------------
\* A type filter: type(...) or literal() builds it, a scan applies it
\* ------------------------------------------------------------------------
\* the type names a script passes to type(...)
TypeArgs == {[i \in 1..Len(q) |-> ArgStr(q[i])] : q \in SeqsOver({"iri", "str", "int"}, MaxList)}

\* the values the filter is applied to
FilterVals ==
    {Quad("iri", "<bob>", 0), Quad("bnode", "_:b", 0), Quad("str", "bob", 0),
     Quad("int", "", 1), Quad("float", "", 3), Quad("bool", "true", 0),
     Quad("geo", "point", 0)}

InitFilter ==
    /\ InitSession
    /\ inp \in [fn : {"type"}, args : TypeArgs, val : FilterVals]
             \cup [fn : {"literal"}, args : {<<>>}, val : FilterVals]

\* a script calls p.type(...) or p.literal()
CallType ==
    /\ res.fn = "none" /\ inp.fn \in {"type", "literal"}
    /\ LET r == IF inp.fn = "type" THEN pathObject_Type(Builder, 1, inp.args)
                ELSE pathObject_Literal(Builder, 1)
       IN /\ res' = [fn |-> inp.fn, step |-> r.step, panic |-> r.panic,
                     applied |-> FALSE, ok |-> FALSE, err |-> NoPanic]
          /\ objs' = r.b.objs /\ paths' = r.b.paths /\ arrays' = r.b.arrays
          /\ ret' = IF r.panic # NoPanic THEN ret
                    ELSE [NoRet EXCEPT !.obj = r.o, !.recv = 1, !.kind = inp.fn]
    /\ UNCHANGED <<mvars, inp, rec, refs>>

\* the filter iterator calls the function with a value of its child
FilterValue ==
    /\ res.fn \in {"type", "literal"} /\ res.panic = NoPanic /\ ~res.applied
    /\ LET f == filterTypes_filter(res.step.nodes, inp.val)
       IN res' = [res EXCEPT !.applied = TRUE, !.ok = f.ok, !.err = f.err]
    /\ UNCHANGED <<mvars, bvars, inp, rec, refs>>

NextFilter ==
    \/ CallType
    \/ FilterValue

SpecFilter == InitFilter /\ [][NextFilter]_vars

\* ------------------------------------------------------------------------
\* Properties of the Scanner and the Index (checked under Spec)
\* ------------------------------------------------------------------------
Min(S) == CHOOSE m \in S : \A n \in S : m <= n

\* the mapper function fails on no value
NeverFails(m) == \A v \in StoredVals : m[v].err = NoErr

\* intern(f(resolve(y)))
Image(m, y) == ValueOf(m[NameOf(y)].val)

\* the images of a sequence of child results that the store knows, in order
Expected(m, s) ==
    SelectSeq([i \in 1..Len(s) |-> Image(m, s[i])], LAMBDA h : h # NoRef)

\* the child results consumed so far
Consumed(c) == SubSeq(c.sub.seq, 1, c.sub.pos)

\* C1: with a mapper that never fails, the results a mapper Scanner delivers
\* are the interned images of the child's results, in child order, without
\* the candidates whose image is not in the store; every successful Next
\* delivers the image of the child result it stopped at; and when the child
\* is exhausted Next returns false, with a nil error if the child ended cleanly.
C1_ScanMapsInOrder ==
    (Len(scan) = 1 /\ NeverFails(scan[1].mapper)) =>
        LET c == scan[1]
        IN /\ out = Expected(c.mapper, Consumed(c))
           /\ (last.op = "Next" /\ last.ret) =>
                 /\ c.sub.pos > last.pos0
                 /\ valueMapperNext_Result(c) = Image(c.mapper, c.sub.seq[c.sub.pos])
                 /\ valueMapperNext_Result(c) # NoRef
                 /\ out[Len(out)] = valueMapperNext_Result(c)
           /\ (last.op = "Next" /\ ~last.ret /\ ~last.done) =>
                 /\ c.sub.pos = Len(c.sub.seq)
                 /\ (c.sub.endErr = NoErr => valueMapperNext_Err(c) = NoErr)

\* C1 witness: of three child results two were delivered and one was dropped,
\* then Next returned false with a nil error
C1_Witness ==
    /\ Len(scan) = 1 /\ NeverFails(scan[1].mapper)
    /\ last.op = "Next" /\ ~last.ret /\ ~last.done
    /\ Len(out) = 2
    /\ scan[1].sub.pos = 3
    /\ scan[1].err = NoErr

\* the positions of the child results consumed by the last Next on which the
\* mapper function failed
FailedAt(c) ==
    {i \in (last.pos0 + 1)..c.sub.pos : c.mapper[NameOf(c.sub.seq[i])].err # NoErr}

\* C2 (as claimed): if the mapper function fails on a candidate during Next,
\* that Next returns false, consumes no further child result, and Err() is
\* the mapper's failure afterwards.
C2_Claim ==
    (Len(scan) = 1 /\ last.op = "Next" /\ FailedAt(scan[1]) # {}) =>
        /\ ~last.ret
        /\ scan[1].sub.pos = Min(FailedAt(scan[1]))
        /\ valueMapperNext_Err(scan[1]) = MapErr

\* the handles the Scanner of a shape over these child results enumerates
ScanSet(m, items) == {Image(m, items[i]) : i \in 1..Len(items)} \ {NoRef}

\* C3 (as claimed): Contains(x) is true iff some child result y has
\* intern(f(resolve(y))) = x, i.e. iff the Scanner enumerates x.
C3_Claim ==
    (Len(look) = 1 /\ last.op = "Contains" /\ ~last.done) =>
        (last.ret <=> last.x \in ScanSet(look[1].mapper, look[1].sub.seq))

\* C8: a negative answer that comes from the child carries the child's error:
\* after Next returned false, and after Contains returned false because the
\* child's Contains returned false, Err() of the mapper is Err() of the child.
C8_ChildErrNotMasked ==
    /\ (Len(scan) = 1 /\ last.op = "Next" /\ ~last.ret) =>
          /\ scan[1].sub.call = "Next" /\ ~scan[1].sub.ret
          /\ valueMapperNext_Err(scan[1]) = SubErrOf(scan[1].sub)
    /\ (Len(look) = 1 /\ last.op = "Contains" /\ ~last.ret
            /\ Image(look[1].mapper, last.x) # NoRef) =>
          /\ look[1].sub.call = "Contains" /\ ~look[1].sub.ret
          /\ valueMapperContains_Err(look[1]) = SubErrOf(look[1].sub)

\* C8 witness: the child Index failed on a probe and the mapper Index reports
\* the child's error
C8_Witness ==
    /\ Len(look) = 1 /\ last.op = "Contains" /\ ~last.ret /\ ~last.done
    /\ Image(look[1].mapper, last.x) # NoRef
    /\ look[1].sub.err = SubErr
    /\ look[1].err = SubErr

\* C9: every child call of a mapper cursor gets the context of the caller,
\* and a Next under a cancelled context returns false with Err() the
\* cancellation error.
C9_CancellationPropagates ==
    /\ (Len(scan) = 1 /\ last.op \in {"Next", "NextPath"}) =>
          scan[1].sub.call = last.op /\ scan[1].sub.ctx = last.ctx
    /\ (Len(look) = 1 /\ last.op = "NextPath") =>
          look[1].sub.call = last.op /\ look[1].sub.ctx = last.ctx
    /\ (Len(look) = 1 /\ last.op = "Contains" /\ Image(look[1].mapper, last.x) # NoRef) =>
          look[1].sub.call = last.op /\ look[1].sub.ctx = last.ctx
    /\ (Len(scan) = 1 /\ last.op = "Next" /\ last.done) =>
          ~last.ret /\ valueMapperNext_Err(scan[1]) = Canceled

\* C9 witness: cancellation arrived mid-scan, after a result was delivered and
\* before the child was exhausted
C9_Witness ==
    /\ Len(scan) = 1 /\ last.op = "Next" /\ last.done /\ ~last.ret
    /\ Len(out) >= 1 /\ last.pos0 < Len(scan[1].sub.seq)
    /\ scan[1].err = Canceled

\* C10: TagResults of a mapper cursor leaves in the destination what the
\* child's TagResults leaves there, and NextPath returns what the child's
\* NextPath returned.
C10_TagsDelegated ==
    /\ (Len(scan) = 1 /\ last.op = "TagResults") =>
          dst = SubTagResults(scan[1].sub, last.din)
    /\ (Len(look) = 1 /\ last.op = "TagResults") =>
          dst = SubTagResults(look[1].sub, last.din)
    /\ (Len(scan) = 1 /\ last.op = "NextPath") =>
          scan[1].sub.call = "NextPath" /\ last.ret = scan[1].sub.ret
    /\ (Len(look) = 1 /\ last.op = "NextPath") =>
          look[1].sub.call = "NextPath" /\ last.ret = look[1].sub.ret

\* C10 witness: the tags of an alternate path of a child result whose image
\* is another handle, written over a destination that had bindings
C10_Witness ==
    /\ Len(scan) = 1 /\ last.op = "TagResults" /\ last.din # <<>>
    /\ scan[1].sub.path = 1
    /\ scan[1].result # scan[1].sub.cur
    /\ dst["t"] = scan[1].sub.cur /\ dst["k"] = "h1"

\* ------------------------------------------------------------------------
\* Properties of Optimize (checked under SpecOptimize)
\* ------------------------------------------------------------------------
\* the step is a call of it.Optimize
OptimizeCalled == last'.op = "Optimize" /\ iter' = iter + 1

\* C5 (as claimed): Optimize on a mapper node reports changed exactly when
\* the child's Optimize reports changed.
C5_Claim ==
    [][OptimizeCalled => (last'.ret <=> SubOptimize(it.sub).changed)]_vars

\* C6 (as claimed): the caller that re-invokes Optimize until it reports no
\* change gets there within its iteration bound, which exceeds the number of
\* passes the child needs: the loop never gives up.
C6_Claim == pc # "gaveup"

\* every (Handle, Binding Set) pair of the current result of a Scanner,
\* over all its alternate paths
RECURSIVE AllPaths(_, _)
AllPaths(c, acc) ==
    LET acc1 == acc \cup {<<valueMapperNext_Result(c), valueMapperNext_TagResults(c, <<>>)>>}
        r == valueMapperNext_NextPath(c, "background")
    IN IF r.ret THEN AllPaths(r.it, acc1) ELSE [it |-> r.it, acc |-> acc1]

\* every (Handle, Binding Set) pair a Scanner enumerates until Next is false
RECURSIVE Drain(_, _)
Drain(c, acc) ==
    LET r == valueMapperNext_Next(c, "background")
    IN IF r.ret
       THEN LET a == AllPaths(r.it, acc) IN Drain(a.it, a.acc)
       ELSE acc

ScanResults(node) == Drain(valueMapper_Iterate(node), {})

\* C7: Optimize returns the node with its mapper function and store, its
\* child replaced by the child's optimized replacement, and the Scanner of
\* the node enumerates the same (Handle, Binding Set) pairs as before.
C7_OptimizeKeepsResults ==
    [][OptimizeCalled =>
         /\ it'.mapper = it.mapper
         /\ it'.qs = it.qs
         /\ it'.sub = SubOptimize(it.sub).shape
         /\ ScanResults(it') = ScanResults(it)]_vars

\* C7 witness: a pass replaced the child by one with another result order,
\* and the node enumerates at least two results
C7_Witness ==
    /\ last.op = "Optimize" /\ iter = 1
    /\ it.sub.passes = MaxPasses - 1
    /\ it.sub.items # Reverse(it.sub.items)
    /\ Cardinality(ScanResults(it)) >= 2

\* ------------------------------------------------------------------------
\* Properties of the path builder (checked under SpecPath)
\* ------------------------------------------------------------------------
\* the steps pathObject i denotes, now and after the step
StepsOf(i) == Denote(paths, arrays, objs[i])
StepsAfter(i) == Denote(paths', arrays', objs'[i])

\* C4: a combinator call leaves the step sequence of every existing
\* pathObject as it was, the receiver included; the receiver then holds a new
\* path capped at its length (the clone), and the returned pathObject denotes
\* the receiver's steps followed by the step of the call.
C4_PathsPersistent ==
    [][ret' # ret =>
         /\ \A i \in 1..Len(objs) : StepsAfter(i) = StepsOf(i)
         /\ Len(objs') = Len(objs) + 1 /\ ret'.obj = Len(objs')
         /\ objs'[ret'.recv] > Len(paths)
         /\ paths'[objs'[ret'.recv]].cap = paths'[objs'[ret'.recv]].len
         /\ StepsAfter(ret'.obj) =
               Append(StepsOf(ret'.recv),
                      [kind |-> ret'.kind, val |-> ret'.val,
                       via |-> IF ret'.via = 0 THEN <<>>
                               ELSE Denote(paths, arrays, ret'.via)])]_vars

\* C4 witness: two pathObjects derived from the same pathObject i denote
\* different extensions of it, one of them written in place into the backing
\* array that i's stack lies in
C4_Witness ==
    \E i, j, k \in 1..Len(objs) :
        /\ paths[objs[i]].len = 3 /\ paths[objs[j]].len = 4 /\ paths[objs[k]].len = 4
        /\ paths[objs[j]].arr = paths[objs[i]].arr
        /\ paths[objs[k]].arr # paths[objs[i]].arr
        /\ SubSeq(StepsOf(j), 1, 3) = StepsOf(i)
        /\ SubSeq(StepsOf(k), 1, 3) = StepsOf(i)
        /\ StepsOf(j) # StepsOf(k)

\* C11: between a successful Next of the Scanner and the following Next or
\* Close, a NextPath call leaves Result() what that Next delivered, however
\* many NextPath calls were made.
C11_NextPathKeepsResult ==
    (Len(scan) = 1 /\ last.op = "NextPath" /\ Len(out) > 0)
        => valueMapperNext_Result(scan[1]) = out[Len(out)]

\* NextPath moved the child to an alternate path of a result whose mapped
\* handle differs from the child's handle
C11_Witness ==
    /\ Len(scan) = 1 /\ last.op = "NextPath" /\ last.ret /\ Len(out) > 0
    /\ scan[1].sub.path > 0
    /\ valueMapperNext_Result(scan[1]) # SubResult(scan[1].sub)

\* the cursors that exist
Cursors == {scan[i] : i \in 1..Len(scan)} \cup {look[i] : i \in 1..Len(look)}

\* C12: after a Close call on the Scanner or the Index, in whatever state the
\* cursor was, the child cursor has been closed exactly once, by a Close call
\* of its own, and the call returned what the child's Close returned.
C12_CloseClosesChild ==
    last.op = "Close" =>
        \A c \in Cursors :
            /\ c.sub.closed = 1
            /\ c.sub.call = "Close"
            /\ last.err = SubCloseErr(c.sub)

\* a Scanner that failed was closed, and its child's Close failed as well
C12_Witness ==
    /\ Len(scan) = 1 /\ last.op = "Close" /\ last.err = CloseErr
    /\ valueMapperNext_Err(scan[1]) # NoErr
    /\ scan[1].sub.closed = 1

\* ------------------------------------------------------------------------
\* Properties of the cost estimate (checked under SpecStats)
\* ------------------------------------------------------------------------
\* C13: the estimate of a mapper node is inexact whatever its child
\* estimated: an exact size, an inexact one, with or without an error.
C13_StatsInexact ==
    res.fn = "Stats" => res.st.Size.Exact = FALSE

\* the child's estimate was exact and came with an error
C13_Witness ==
    /\ res.fn = "Stats" /\ inp.st.Size.Exact /\ inp.err # NoErr
    /\ res.err = inp.err /\ ~res.st.Size.Exact

\* C14 as claimed: for every child size n >= 0 the reported size is
\* n/2 + 1 in integer division and is not larger than n.
C14_Claim ==
    res.fn = "Stats" =>
        /\ res.st.Size.Size = (inp.st.Size.Size \div 2) + 1
        /\ res.st.Size.Size <= inp.st.Size.Size

\* C14: for every child size n >= 0 the reported size is n/2 + 1 in integer
\* division; it is not larger than n for n >= 1, and it is 1 for n = 0.
C14_SizeHalvedPlusOne ==
    res.fn = "Stats" =>
        LET n == inp.st.Size.Size
            m == res.st.Size.Size
        IN /\ m = (n \div 2) + 1
           /\ n >= 1 => m <= n
           /\ n = 0 => m = 1

\* an empty child is estimated at one result
C14_Witness ==
    /\ res.fn = "Stats"
    /\ inp.st.Size.Size = 0 /\ res.st.Size.Size = 1

\* ------------------------------------------------------------------------
\* Properties of the arguments of in, out, both and has (checked under
\* SpecArgs)
\* ------------------------------------------------------------------------
\* the call was one of in, out, both and it returned
StepReturned == res.fn \in {"in", "out", "both"} /\ res.panic = NoPanic

\* the tag names a script gave after the predicate argument
TagsGiven(args) == IF Len(args) > 1 THEN toStrings(Tail(args)).out ELSE <<>>

\* C15 as claimed: the step in, out or both appends records the tag names
\* given after the predicate argument, and none when none were given.
C15_Claim ==
    StepReturned => res.step.tags = TagsGiven(inp.args)

\* a value that has a quad value, and a path object
Convertible(a) == a.t \in {"quad.Value", "string", "bool", "int", "float64"}
IsPathObject(a) == a.t = "*pathObject"

\* what a predicate element is normalised to
Normal(a) == IF IsPathObject(a) THEN ArgPath(a.p) ELSE toQuadValue(a).qv

\* the tag arguments can be converted
RestFine(args) == Len(args) <= 1 \/ toStrings(Tail(args)).panic = NoPanic

\* C16: the predicate argument of in, out and both is normalised: none, null
\* or undefined gives no predicates; one value the list of its quad value; a
\* list of values their quad values in order; a path object that path; an
\* element of any other type is rejected.
C16_ViaNormalised ==
    res.fn \in {"in", "out", "both"} =>
        LET args == inp.args
            a == args[1]
        IN /\ (Len(args) = 0 \/ (Len(args) > 0 /\ a.t = "nil")) =>
                (RestFine(args) => res.panic = NoPanic /\ res.step.via = <<>>)
           /\ (Len(args) > 0 /\ (Convertible(a) \/ IsPathObject(a))) =>
                (RestFine(args) => res.panic = NoPanic /\ res.step.via = <<Normal(a)>>)
           /\ (Len(args) > 0 /\ a.t = "[]interface{}" /\ Len(a.l) > 0
                /\ \A i \in 1..Len(a.l) : Convertible(a.l[i]) \/ IsPathObject(a.l[i])) =>
                (RestFine(args) =>
                    /\ res.panic = NoPanic
                    /\ res.step.via = [i \in 1..Len(a.l) |-> Normal(a.l[i])])
           /\ (Len(args) > 0 /\ a.t = "map") => res.panic = errUnsupported
           /\ (Len(args) > 0 /\ a.t = "[]interface{}"
                /\ \E i \in 1..Len(a.l) : a.l[i].t = "map") => res.panic = errUnsupported

\* a list of a predicate name and a path object was normalised to the IRI
\* and the path, in this order
C16_Witness ==
    /\ res.fn = "out" /\ res.panic = NoPanic
    /\ Len(inp.args) = 1
    /\ inp.args[1] = ArgList(<<ArgStr("<follows>"), ArgPathObject(1)>>)
    /\ res.step.via = <<Quad("iri", "<follows>", 0), ArgPath(1)>>

\* C17 as claimed: has and hasReverse called with a path object as first
\* argument (and node values after it) do not raise an error and append a
\* has-step whose predicate is that path.
C17_Claim ==
    (/\ res.fn \in {"has", "hasReverse"}
     /\ Len(inp.args) > 0 /\ IsPathObject(inp.args[1])
     /\ toQuadValues(Tail(inp.args)).err = NoPanic) =>
        /\ res.panic = NoPanic
        /\ res.step.kind = res.fn
        /\ res.step.via = <<ArgPath(inp.args[1].p)>>

\* ------------------------------------------------------------------------
\* Properties of the type filter (checked under SpecFilter)
\* ------------------------------------------------------------------------
\* C18 as claimed: the filter of type(...) accepts a value whose typeCheck
\* name is one of the requested names and rejects every other value as a
\* plain non-match: false, and no error.
C18_Claim ==
    (res.fn \in {"type", "literal"} /\ res.applied) =>
        LET match == \E i \in 1..Len(res.step.nodes) :
                        res.step.nodes[i] = typeCheck(inp.val)
        IN /\ res.ok = match
           /\ res.err = NoPanic

\* ------------------------------------------------------------------------
\* Properties of the recursive closure (checked under SpecClosure)
\* ------------------------------------------------------------------------
\* the handles reached from S by exactly k applications of the morphism
RECURSIVE StepsFrom(_, _, _)
StepsFrom(g, S, k) == IF k = 0 THEN S ELSE Img(g, StepsFrom(g, S, k - 1))

\* the handles reached from S by one application or more
Reach(g, S) == UNION {StepsFrom(g, S, k) : k \in 1..Cardinality(Nodes)}

\* length of the shortest route from u to another handle v it reaches
Dist(g, u, v) == Min({k \in 1..Cardinality(Nodes) : v \in StepsFrom(g, {u}, k)})

\* the graph diameter: the longest of the shortest routes between two
\* distinct handles, 0 when no handle reaches another
Diameter(g) ==
    LET ds == {Dist(g, p[1], p[2]) :
                 p \in {q \in Nodes \X Nodes : q[1] # q[2] /\ q[2] \in Reach(g, {q[1]})}}
    IN IF ds = {} THEN 0 ELSE CHOOSE d \in ds : \A e \in ds : e <= d

Acyclic(g) == \A u \in Nodes : u \notin Reach(g, {u})

\* the closure run to its end
RECURSIVE ClosureRun(_)
ClosureRun(r) == IF r.pc = "done" THEN r ELSE ClosureRun(RecursiveStep(r))

\* the script gave no depth bound, or 0
Unbounded == Len(inp.args) = 1 \/ (Len(inp.args) > 1 /\ inp.args[2].n = 0)

\* the closure ended: it makes at most one round per handle and a last one
Terminates == rec.depth <= Cardinality(Nodes) + 1

\* no handle entered the frontier that was visited before the round
NoRevisit == rec.depth > 0 => rec.frontier \cap rec.before = {}

\* an unbounded closure has the result of one bounded by the diameter
SameAsDiameter ==
    rec.result = ClosureRun(NewClosure(rec.graph, rec.start, Diameter(rec.graph),
                                       rec.seeded)).result

\* C19 as claimed: on any finite graph the closure terminates, puts no
\* visited handle into the frontier again, and with depth bound 0 yields the
\* result set of a depth bound equal to the graph diameter.
C19_Claim ==
    rec.fn = "closure" =>
        /\ Terminates
        /\ NoRevisit
        /\ (rec.pc = "done" /\ Unbounded) => SameAsDiameter

\* C19: on any finite graph, cyclic ones included, the closure terminates
\* and puts no visited handle into the frontier again; on an acyclic graph
\* depth bound 0 yields the result set of a depth bound equal to the graph
\* diameter.
C19_ClosureTerminates ==
    rec.fn = "closure" =>
        /\ Terminates
        /\ NoRevisit
        /\ (rec.pc = "done" /\ Unbounded /\ Acyclic(rec.graph)) => SameAsDiameter

\* an unbounded closure over a chain of two edges ended with both handles
C19_Witness ==
    /\ rec.fn = "closure" /\ rec.pc = "done" /\ Len(inp.args) = 1
    /\ rec.graph = {<<"A", "B">>, <<"B", "C">>} /\ rec.start = {"A"}
    /\ rec.result = {"B", "C"}

\* ------------------------------------------------------------------------
\* Properties of two cursors of one mapper node (checked under SpecTwo)
\* ------------------------------------------------------------------------
\* C20: whatever calls are made on one cursor of a mapper node, Result() and
\* Err() of every other cursor of that node are what they were when that
\* cursor was last used.
C20_NoSharedState ==
    \A j \in 1..Len(refs) :
        /\ Deref(refs[j]).result = refs[j].result
        /\ Deref(refs[j]).err = refs[j].err

\* two Scanners of one node stand on different results, one of them closed
C20_Witness ==
    /\ Len(refs) = 2 /\ refs[1].kind = "scan" /\ refs[2].kind = "scan"
    /\ refs[1].idx # refs[2].idx
    /\ refs[1].result # NoRef /\ refs[2].result # NoRef
    /\ refs[1].result # refs[2].result
    /\ Deref(refs[1]).sub.closed = 1 /\ Deref(refs[2]).sub.closed = 0

C30_Claim ==
    (Len(look) = 1 /\ last.op = "Contains" /\ last.ret) =>
        valueMapperContains_Result(look[1]) # NoRef

\* ------------------------------------------------------------------------
\* JavaScript names of Go fields and methods (fieldNameMapper)
\* ------------------------------------------------------------------------
\* A Go string is the sequence of its runes.

\* longest Go name drawn
MaxName == 4

\* the runes names are made of
Runes == {"N", "n", "e", "w", "V", "v"}

\* utf8.RuneError, which utf8.DecodeRuneInString returns for an empty string
RuneError == "U+FFFD"

\* unicode.ToLower(ch)
ToLower(ch) ==
    IF ch = "N" THEN "n" ELSE IF ch = "V" THEN "v" ELSE ch

\* strings.HasPrefix(s, prefix)
HasPrefix(s, prefix) ==
    Len(s) >= Len(prefix) /\ SubSeq(s, 1, Len(prefix)) = prefix

\* strings.TrimPrefix(s, prefix)
TrimPrefix(s, prefix) ==
    IF HasPrefix(s, prefix) THEN SubSeq(s, Len(prefix) + 1, Len(s)) ELSE s

constructMethodPrefix == <<"N", "e", "w">>

\* lcFirst(str): the decoded first rune in lower case, then the rest
lcFirst(str) ==
    IF Len(str) = 0 THEN <<ToLower(RuneError)>>
    ELSE <<ToLower(str[1])>> \o SubSeq(str, 2, Len(str))

\* FieldName(t, f)
fieldNameMapper_FieldName(name) == lcFirst(name)

\* MethodName that lower-cases what is left of a constructor's name
MethodName_LowersRest(name) ==
    IF HasPrefix(name, constructMethodPrefix)
    THEN lcFirst(TrimPrefix(name, constructMethodPrefix))
    ELSE lcFirst(name)

\* MethodName(t, m)
fieldNameMapper_MethodName(name) ==
    IF HasPrefix(name, constructMethodPrefix)
    THEN TrimPrefix(name, constructMethodPrefix)
    ELSE lcFirst(name)

\* goja asks for the name of a field or a method of a Go value; Go names
\* are not empty
InitNames ==
    /\ InitCall
    /\ inp \in [fn : {"FieldName", "MethodName"},
                name : SeqsOver(Runes, MaxName) \ {<<>>}]

\* the name mapper answers, and the answer is mapped once more as a field
CallName ==
    /\ res.fn = "none" /\ inp.fn \in {"FieldName", "MethodName"}
    /\ LET js == IF inp.fn = "FieldName" THEN fieldNameMapper_FieldName(inp.name)
                 ELSE fieldNameMapper_MethodName(inp.name)
       IN res' = [fn |-> inp.fn, js |-> js, again |-> lcFirst(js)]
    /\ UNCHANGED <<mvars, bvars, inp, rec, refs>>

NextNames == CallName

SpecNames == InitNames /\ [][NextNames]_vars

\* name with only its first rune in lower case
FirstLowered(name, js) ==
    /\ Len(js) = Len(name)
    /\ js[1] = ToLower(name[1])
    /\ \A i \in 2..Len(name) : js[i] = name[i]

\* C21: a method whose Go name starts with "New" is exposed under the rest
\* of the name, unchanged; every other method and every field is exposed
\* under its Go name with only the first character in lower case; and
\* lower-casing the first character of an lcFirst result changes nothing.
C21_JSNames ==
    /\ (res.fn = "MethodName" /\ HasPrefix(inp.name, <<"N", "e", "w">>)) =>
           /\ Len(res.js) = Len(inp.name) - 3
           /\ \A i \in 1..Len(res.js) : res.js[i] = inp.name[i + 3]
    /\ (res.fn = "MethodName" /\ ~HasPrefix(inp.name, <<"N", "e", "w">>)) =>
           FirstLowered(inp.name, res.js)
    /\ res.fn = "FieldName" => FirstLowered(inp.name, res.js)
    /\ (res.fn = "FieldName" \/ (res.fn = "MethodName"
                                  /\ ~HasPrefix(inp.name, <<"N", "e", "w">>))) =>
           res.again = res.js

\* NewV is exposed as V, with its capital
C21_Witness ==
    /\ res.fn = "MethodName" /\ inp.name = <<"N", "e", "w", "V">>
    /\ res.js = <<"V">>

\* ------------------------------------------------------------------------
\* Finals of a path: toArray, toValue, forEach (gizmopp/finals.go)
\* ------------------------------------------------------------------------
\* most results the compiled iterator of a path yields
MaxResults == 2

\* the panic of a call with too many arguments
errArgCountNum == "unexpected arguments count (errArgCountNum)"

\* a JavaScript function given as argument
ArgFunc == Arg("func")

\* one element of the array: the value itself, or the tag map of the result
\* with the value under TopResultTag
TopResultTag == "id"
ResultElem(v, withTags) == IF withTags THEN <<TopResultTag, v>> ELSE v

\* s.runIteratorToArray(it, limit), s.runIteratorToArrayNoTags(it, limit)
\* and, with the array standing for the values handed to the callback,
\* s.runIteratorWithCallback(it, callback, call, limit): the iterator
\* yields results and then ends with endErr; a negative limit is no limit,
\* and an iterator stopped by the limit is not advanced again
runIterator(results, endErr, limit, withTags) ==
    LET n == IF limit < 0 \/ limit > Len(results) THEN Len(results) ELSE limit
        stopped == limit >= 0 /\ limit <= Len(results)
    IN IF ~stopped /\ endErr # NoErr
       THEN [array |-> <<>>, err |-> endErr]
       ELSE [array |-> [i \in 1..n |-> ResultElem(results[i], withTags)],
             err |-> NoErr]

\* the outcome of a final: the limit the iterator was run with (if it was
\* run), the value returned, the error returned and the panic raised
Final(ran, limit, value, err, panic) ==
    [ran |-> ran, limit |-> limit, value |-> value, err |-> err, panic |-> panic]

\* toArray that runs the iterator without a limit whatever it is given
toArray_IgnoresLimit(results, endErr, args, withTags) ==
    LET a == exportArgs(args)
    IN IF Len(a) > 1 THEN Final(FALSE, 0, <<>>, NoErr, errArgCountNum)
       ELSE LET r == runIterator(results, endErr, -1, withTags)
            IN IF r.err # NoErr THEN Final(TRUE, -1, <<>>, NoErr, r.err)
               ELSE Final(TRUE, -1, r.array, NoErr, NoPanic)

\* p.toArray(call, withTags)
pathObject_toArray(results, endErr, args, withTags) ==
    LET a == exportArgs(args)
    IN IF Len(a) > 1 THEN Final(FALSE, 0, <<>>, NoErr, errArgCountNum)
       ELSE LET limit == IF Len(a) > 0 THEN toInt(a[1]).n ELSE -1
                r == runIterator(results, endErr, limit, withTags)
            IN IF r.err # NoErr THEN Final(TRUE, limit, <<>>, NoErr, r.err)
               ELSE Final(TRUE, limit, r.array, NoErr, NoPanic)

\* p.toValue(withTags)
pathObject_toValue(results, endErr, withTags) ==
    LET limit == 1
        r == runIterator(results, endErr, limit, withTags)
    IN IF r.err # NoErr THEN Final(TRUE, limit, NilVal, r.err, NoPanic)
       ELSE IF Len(r.array) = 0 THEN Final(TRUE, limit, NilVal, NoErr, NoPanic)
       ELSE Final(TRUE, limit, r.array[1], NoErr, NoPanic)

\* p.ForEach(call): the value is the sequence of results the callback saw
pathObject_ForEach(results, endErr, args) ==
    IF Len(args) # 1 /\ Len(args) # 2
    THEN Final(FALSE, 0, <<>>, NoErr, errArgCount)
    ELSE LET a == exportArgs(Tail(args))
             limit == IF Len(a) # 0 THEN toInt(a[1]).n ELSE -1
             r == runIterator(results, endErr, limit, FALSE)
         IN IF r.err # NoErr THEN Final(TRUE, limit, <<>>, NoErr, r.err)
            ELSE Final(TRUE, limit, r.array, NoErr, NoPanic)

\* the limit arguments scripts pass
LimitArgs == {ArgInt(n) : n \in -1..MaxResults} \cup {ArgFloat(3), ArgStr("2")}

InitFinals ==
    /\ InitCall
    /\ \/ inp \in [fn : {"toArray"}, results : SeqsOver(StoredVals, MaxResults),
                   endErr : {NoErr, SubErr}, withTags : BOOLEAN,
                   args : {<<>>, <<ArgInt(1), ArgInt(2)>>} \cup {<<l>> : l \in LimitArgs}]
       \/ inp \in [fn : {"toValue"}, results : SeqsOver(StoredVals, MaxResults),
                   endErr : {NoErr, SubErr}, withTags : BOOLEAN, args : {<<>>}]
       \/ inp \in [fn : {"forEach"}, results : SeqsOver(StoredVals, MaxResults),
                   endErr : {NoErr, SubErr}, withTags : {FALSE},
                   args : {<<>>, <<ArgFunc>>, <<ArgFunc, ArgInt(1), ArgInt(2)>>}
                          \cup {<<ArgFunc, l>> : l \in LimitArgs}]

\* a script calls p.toArray(...) or p.tagArray(...)
CallToArray ==
    /\ res.fn = "none" /\ inp.fn = "toArray"
    /\ res' = [fn |-> inp.fn,
               r |-> pathObject_toArray(inp.results, inp.endErr, inp.args, inp.withTags)]
    /\ UNCHANGED <<mvars, bvars, inp, rec, refs>>

\* a script calls p.toValue() or p.tagValue()
CallToValue ==
    /\ res.fn = "none" /\ inp.fn = "toValue"
    /\ res' = [fn |-> inp.fn,
               r |-> pathObject_toValue(inp.results, inp.endErr, inp.withTags)]
    /\ UNCHANGED <<mvars, bvars, inp, rec, refs>>

\* a script calls p.forEach(...)
CallForEach ==
    /\ res.fn = "none" /\ inp.fn = "forEach"
    /\ res' = [fn |-> inp.fn,
               r |-> pathObject_ForEach(inp.results, inp.endErr, inp.args)]
    /\ UNCHANGED <<mvars, bvars, inp, rec, refs>>

NextFinals ==
    \/ CallToArray
    \/ CallToValue
    \/ CallForEach

SpecFinals == InitFinals /\ [][NextFinals]_vars

\* the limit argument of the call, if the script gave one
LimitGiven ==
    IF inp.fn = "toArray" THEN inp.args
    ELSE IF Len(inp.args) = 0 THEN <<>> ELSE Tail(inp.args)

\* C22: toValue runs the iterator with limit 1 and returns the first
\* result, or nil without an error when a sound iterator has no result;
\* toArray and forEach run the iterator with limit -1 when the script gave
\* no limit and with the integer the script gave otherwise.
C22_Limits ==
    /\ res.fn = "toValue" =>
           /\ res.r.ran /\ res.r.limit = 1
           /\ Len(inp.results) > 0 =>
                  /\ res.r.value = ResultElem(inp.results[1], inp.withTags)
                  /\ res.r.err = NoErr
           /\ (Len(inp.results) = 0 /\ inp.endErr = NoErr) =>
                  (res.r.value = NilVal /\ res.r.err = NoErr)
    /\ (res.fn \in {"toArray", "forEach"} /\ res.r.ran) =>
           /\ Len(LimitGiven) = 0 => res.r.limit = -1
           /\ (Len(LimitGiven) = 1 /\ LimitGiven[1].t = "int") =>
                  res.r.limit = LimitGiven[1].n

\* toArray(1) on a path with two results ran the iterator with limit 1
C22_Witness ==
    /\ res.fn = "toArray" /\ inp.args = <<ArgInt(1)>> /\ Len(inp.results) = 2
    /\ res.r.ran /\ res.r.limit = 1 /\ Len(res.r.value) = 1

\* ------------------------------------------------------------------------
\* User callbacks of filter(...) and map(...)
\* ------------------------------------------------------------------------
errType == "unexpected type (errType)"

\* what a script's exception becomes in Go
JSException == "exception"

\* What the goja.Callable r.fn hands back for one value: an exception
\* (no value and an error), a nil goja.Value without error, or a
\* JavaScript value, undefined for a function that returns nothing.
JSValues ==
    {[js |-> "undefined"], [js |-> "null"]}
        \cup [js : {"boolean"}, b : BOOLEAN]
        \cup [js : {"number"}, n : {0, 1}]
        \cup [js : {"string"}, s : {"", "bob", "<follows>"}]
        \cup {[js |-> "object"]}

\* a goja.Value that is the Go nil
NilValue == [js |-> "nil"]

CallbackOutcomes ==
    {[done |-> NilValue, err |-> JSException], [done |-> NilValue, err |-> NoErr]}
        \cup {[done |-> v, err |-> NoErr] : v \in JSValues}

\* goja: Value.ToBoolean()
ToBoolean(v) ==
    IF v.js = "boolean" THEN v.b
    ELSE IF v.js = "number" THEN v.n # 0
    ELSE IF v.js = "string" THEN v.s # ""
    ELSE v.js = "object"

\* goja: Value.Export()
Export(v) ==
    IF v.js = "boolean" THEN ArgBool(IF v.b THEN "true" ELSE "false")
    ELSE IF v.js = "number" THEN ArgInt(v.n)
    ELSE IF v.js = "string" THEN ArgStr(v.s)
    ELSE IF v.js = "object" THEN ArgMap
    ELSE ArgNil

\* the function filterCallback.BuildIterator gives to NewValueFilter, for
\* the outcome c of the script's function
filterCallback(c) ==
    IF c.err # NoErr THEN [ok |-> FALSE, err |-> c.err]
    ELSE IF c.done = NilValue THEN [ok |-> FALSE, err |-> errType]
    ELSE [ok |-> ToBoolean(c.done), err |-> c.err]

\* the function mapperCallback.BuildIterator gives to NewValueMapper
mapperCallback(c) ==
    IF c.err # NoErr THEN [val |-> ArgNil, err |-> c.err]
    ELSE IF c.done = NilValue THEN [val |-> ArgNil, err |-> errType]
    ELSE LET q == toQuadValue(Export(c.done))
         IN [val |-> q.qv, err |-> IF q.err = NoPanic THEN NoErr ELSE q.err]

InitCallback ==
    /\ InitCall
    /\ inp \in [fn : {"filter", "map"}, val : FilterVals, c : CallbackOutcomes]

\* the filter iterator tests a value of its child
CallFilter ==
    /\ res.fn = "none" /\ inp.fn = "filter"
    /\ LET r == filterCallback(inp.c)
       IN res' = [fn |-> inp.fn, ok |-> r.ok, val |-> ArgNil, err |-> r.err]
    /\ UNCHANGED <<mvars, bvars, inp, rec, refs>>

\* the mapper iterator maps a value of its child
CallMapper ==
    /\ res.fn = "none" /\ inp.fn = "map"
    /\ LET r == mapperCallback(inp.c)
       IN res' = [fn |-> inp.fn, ok |-> FALSE, val |-> r.val, err |-> r.err]
    /\ UNCHANGED <<mvars, bvars, inp, rec, refs>>

NextCallback ==
    \/ CallFilter
    \/ CallMapper

SpecCallback == InitCallback /\ [][NextCallback]_vars

\* the script's function raised
Raised == inp.c.err # NoErr

\* the script's function came back without a value
NoValue == inp.c.err = NoErr /\ (inp.c.done = NilValue \/ inp.c.done.js = "undefined")

\* C24 as claimed: whenever the script's function raises or returns no
\* value, filterCallback returns (false, error) and mapperCallback returns
\* (nil, error); mapperCallback also returns an error for a value that is
\* no quad value; in every other case filterCallback returns the truthiness
\* of the value and no error.
C24_Claim ==
    /\ (res.fn = "filter" /\ (Raised \/ NoValue)) =>
           (~res.ok /\ res.err # NoErr)
    /\ (res.fn = "map" /\ (Raised \/ NoValue)) =>
           (res.val = ArgNil /\ res.err # NoErr)
    /\ (res.fn = "map" /\ ~Raised /\ ~NoValue
            /\ toQuadValue(Export(inp.c.done)).err # NoPanic) =>
           res.err # NoErr
    /\ (res.fn = "filter" /\ ~Raised /\ ~NoValue) =>
           (res.ok = ToBoolean(inp.c.done) /\ res.err = NoErr)

\* ------------------------------------------------------------------------
\* Set combinators of a path: intersect, union, except
\* ------------------------------------------------------------------------
\* toBool(o)
toBool(o) == o.t = "bool"

\* the morphisms of path.And, path.Or and path.Except: the other path and
\* the follow flag
Path_SetOp(kind, via, follow) ==
    [kind |-> kind, via |-> <<via>>, tags |-> <<>>, nodes |-> <<>>, follow |-> follow]

\* the common body of Intersect, Union and Except
pathObject_setOp(b, o, kind, args) ==
    LET a == exportArgs(args)
    IN IF Len(a) # 1 /\ Len(a) # 2 THEN Panicked(b, errArgCountNum)
       ELSE IF a[1].t # "*path.Path" THEN Panicked(b, errType)
       ELSE LET follow == IF Len(a) > 1 THEN toBool(a[2]) ELSE FALSE
            IN IF a[1].p = 0
               THEN [b |-> b, o |-> o, step |-> NoMorph, panic |-> NoPanic]
               ELSE Built(b, o, Path_SetOp(kind, a[1], follow))

\* p.Intersect(call)
pathObject_Intersect(b, o, args) == pathObject_setOp(b, o, "and", args)

\* p.Union(call)
pathObject_Union(b, o, args) == pathObject_setOp(b, o, "or", args)

\* p.Except(call)
pathObject_Except(b, o, args) == pathObject_setOp(b, o, "except", args)

\* what scripts pass as the other path and as the follow flag; the path
\* with index 0 is a nil *path.Path
OtherArgs == {ArgPathObject(1), ArgPath(0), ArgStr("<follows>"), ArgNil}
FollowArgs == {ArgBool("true"), ArgBool("false"), ArgInt(1), ArgStr("true"), ArgNil}

InitSetOps ==
    /\ InitSession
    /\ inp \in [fn : {"intersect", "union", "except"},
                args : {<<>>, <<ArgPathObject(1), ArgBool("true"), ArgNil>>}
                       \cup {<<v>> : v \in OtherArgs}
                       \cup {<<v, f>> : v \in OtherArgs, f \in FollowArgs}]

\* a script calls p.intersect(...)
CallIntersect ==
    /\ res.fn = "none" /\ inp.fn = "intersect"
    /\ Returned(pathObject_Intersect(Builder, 1, inp.args))

\* a script calls p.union(...)
CallUnion ==
    /\ res.fn = "none" /\ inp.fn = "union"
    /\ Returned(pathObject_Union(Builder, 1, inp.args))

\* a script calls p.except(...)
CallExcept ==
    /\ res.fn = "none" /\ inp.fn = "except"
    /\ Returned(pathObject_Except(Builder, 1, inp.args))

NextSetOps ==
    \/ CallIntersect
    \/ CallUnion
    \/ CallExcept

SpecSetOps == InitSetOps /\ [][NextSetOps]_vars

\* C25 as claimed: the follow flag handed to And, Or and Except is the
\* boolean value of the optional second argument: false when it is omitted
\* or false, true only when it is true.
C25_Claim ==
    (res.fn \in {"intersect", "union", "except"}
         /\ res.step.kind \in {"and", "or", "except"}) =>
        /\ Len(inp.args) = 1 => ~res.step.follow
        /\ (Len(inp.args) = 2 /\ inp.args[2] = ArgBool("false")) => ~res.step.follow
        /\ res.step.follow => (Len(inp.args) = 2 /\ inp.args[2] = ArgBool("true"))

\* ------------------------------------------------------------------------
\* Regular expression filters: p.regex(...) and the regex(...) comparator
\* ------------------------------------------------------------------------
errRegexpOnIRI == "regexps are not allowed on IRIs"
errRegexpSyntax == "error parsing regexp"

\* regexp.Compile(s) succeeds
Compiles(s) == s # "("

\* shape.Regexp{Re: re, Refs: refs}
Regexp(s, r) ==
    [kind |-> "regexp", via |-> <<>>, tags |-> <<>>, nodes |-> <<s>>, Refs |-> r]

\* what both functions return: the filter, or the panic
Filter(f, msg) == [f |-> f, panic |-> msg]

\* the body with a plain string left a string although references are
\* allowed
regexFilter_KeepsString(args) ==
    LET a == exportArgs(args)
    IN IF Len(a) # 1 /\ Len(a) # 2 THEN Filter(NoMorph, errArgCountNum)
       ELSE LET q == toQuadValue(a[1])
            IN IF q.err # NoPanic THEN Filter(NoMorph, q.err)
               ELSE IF Len(a) > 1 /\ a[2].t # "bool" THEN Filter(NoMorph, errType)
               ELSE LET allowRefs == Len(a) > 1 /\ a[2].s = "true"
                        v == q.qv
                    IN IF v.k \in {"iri", "bnode"} /\ ~allowRefs
                       THEN Filter(NoMorph, errRegexpOnIRI)
                       ELSE IF v.k \notin {"str", "iri", "bnode"}
                       THEN Filter(NoMorph, errUnknownType)
                       ELSE IF ~Compiles(v.s) THEN Filter(NoMorph, errRegexpSyntax)
                       ELSE Filter(Regexp(v.s, v.k \in {"iri", "bnode"}), NoPanic)

\* the body shared by pathObject.Regex and cmpRegexp, up to the filter
regexFilter(args) ==
    LET a == exportArgs(args)
    IN IF Len(a) # 1 /\ Len(a) # 2 THEN Filter(NoMorph, errArgCountNum)
       ELSE LET q == toQuadValue(a[1])
            IN IF q.err # NoPanic THEN Filter(NoMorph, q.err)
               ELSE IF Len(a) > 1 /\ a[2].t # "bool" THEN Filter(NoMorph, errType)
               ELSE LET allowRefs == Len(a) > 1 /\ a[2].s = "true"
                        v == IF q.qv.k = "str" /\ allowRefs
                             THEN Quad("iri", q.qv.s, 0) ELSE q.qv
                    IN IF v.k \in {"iri", "bnode"} /\ ~allowRefs
                       THEN Filter(NoMorph, errRegexpOnIRI)
                       ELSE IF v.k \notin {"str", "iri", "bnode"}
                       THEN Filter(NoMorph, errUnknownType)
                       ELSE IF ~Compiles(v.s) THEN Filter(NoMorph, errRegexpSyntax)
                       ELSE Filter(Regexp(v.s, v.k \in {"iri", "bnode"}), NoPanic)

\* p.Regex(call)
pathObject_Regex(b, o, args) ==
    LET r == regexFilter(args)
    IN IF r.panic # NoPanic THEN Panicked(b, r.panic) ELSE Built(b, o, r.f)

\* cmpRegexp(vm, call): the valFilter
cmpRegexp(args) == regexFilter(args)

\* the patterns and flags scripts pass
PatternArgs ==
    {ArgStr("bob"), ArgStr("("), ArgStr("<follows>"), ArgStr("_:b"),
     Quad("iri", "<bob>", 0), Quad("str", "bob", 0), Quad("int", "", 1),
     ArgInt(1), ArgFloat(3), ArgBool("true"),
     ArgNil, ArgMap, ArgPathObject(1), ArgList(<<>>)}
FlagArgs == {ArgBool("true"), ArgBool("false"), ArgInt(1), ArgNil}

InitRegex ==
    /\ InitSession
    /\ inp \in [fn : {"regex", "cmpRegexp"},
                args : {<<>>, <<ArgStr("bob"), ArgBool("true"), ArgNil>>}
                       \cup {<<v>> : v \in PatternArgs}
                       \cup {<<v, f>> : v \in PatternArgs, f \in FlagArgs}]

\* a script calls p.regex(...)
CallRegex ==
    /\ res.fn = "none" /\ inp.fn = "regex"
    /\ Returned(pathObject_Regex(Builder, 1, inp.args))

\* a script calls regex(...) to build a comparator for filter(...)
CallCmpRegexp ==
    /\ res.fn = "none" /\ inp.fn = "cmpRegexp"
    /\ LET r == cmpRegexp(inp.args)
       IN res' = [fn |-> inp.fn, step |-> r.f, panic |-> r.panic]
    /\ UNCHANGED <<mvars, bvars, inp, rec, refs>>

NextRegex ==
    \/ CallRegex
    \/ CallCmpRegexp

SpecRegex == InitRegex /\ [][NextRegex]_vars

\* a call with a pattern and with no flag or a boolean flag
RegexCalled ==
    /\ res.fn \in {"regex", "cmpRegexp"}
    /\ Len(inp.args) \in {1, 2}
    /\ Len(inp.args) = 2 => inp.args[2].t = "bool"

\* the flag of the call
AllowRefs == Len(inp.args) = 2 /\ inp.args[2] = ArgBool("true")

\* what the pattern is: a string, an IRI, a blank node, another quad
\* value, or no quad value at all
PatternKind ==
    LET a == inp.args[1]
    IN IF a.t = "string" THEN StringToValue(a.s).k
       ELSE IF a.t = "quad.Value" THEN a.k
       ELSE IF a.t \in {"int", "float64", "bool"} THEN a.t
       ELSE "none"

\* C26 as claimed: an IRI or blank node pattern is rejected with
\* errRegexpOnIRI unless allowRefs is true, every pattern that is not a
\* string, IRI or blank node is rejected with errUnknownType, and every
\* accepted call builds a filter whose Refs flag equals allowRefs.
C26_Claim ==
    RegexCalled =>
        /\ (PatternKind \in {"iri", "bnode"} /\ ~AllowRefs) =>
               res.panic = errRegexpOnIRI
        /\ PatternKind \notin {"str", "iri", "bnode"} =>
               res.panic = errUnknownType
        /\ res.panic = NoPanic =>
               (res.step.kind = "regexp" /\ res.step.Refs = AllowRefs)

\* C26, amended: as claimed, except that a pattern that is no quad value
\* at all (null, an object, an array, a path) is rejected with
\* errNotQuadValue; errUnknownType is the rejection of quad values of
\* another kind (numbers, booleans).
C26_Regex ==
    RegexCalled =>
        /\ (PatternKind \in {"iri", "bnode"} /\ ~AllowRefs) =>
               res.panic = errRegexpOnIRI
        /\ PatternKind \notin {"str", "iri", "bnode", "none"} =>
               res.panic = errUnknownType
        /\ PatternKind = "none" => res.panic = errNotQuadValue
        /\ res.panic = NoPanic =>
               (res.step.kind = "regexp" /\ res.step.Refs = AllowRefs)

\* regex("bob", true) built a filter that matches references
C26_Witness ==
    /\ res.fn = "regex" /\ inp.args = <<ArgStr("bob"), ArgBool("true")>>
    /\ res.panic = NoPanic /\ res.step.kind = "regexp" /\ res.step.Refs

\* ------------------------------------------------------------------------
\* Session options and the console module (options.go, jsonld.go)
\* ------------------------------------------------------------------------
\* The session is kept in rec: the globals "base" and "console" of its
\* JavaScript runtime, the "@base" entry of its JSON-LD context, its
\* JSON-LD base option, its logger, the logger whose methods the loaded
\* console module holds, and the lines the loggers received.

\* calls made on one session
MaxCalls == 3

Bases == {"", "http://a/", "http://b/"}
NoLogger == "nil"
Loggers == {NoLogger, "logger1", "logger2"}

\* the "@base" entry of a context that has none
NoEntry == "(no entry)"

\* a session that no option has been applied to
NewSession ==
    [fn |-> "session", base |-> FALSE, ctxBase |-> NoEntry, optsBase |-> "",
     log |-> NoLogger, console |-> FALSE, bound |-> NoLogger,
     logged |-> <<>>, given |-> NoEntry, calls |-> 0]

\* WithBase that leaves a global "base" of an earlier call in place
WithBase_KeepsGlobal(s, base) ==
    LET t == [s EXCEPT !.ctxBase = base, !.optsBase = base]
    IN IF t.optsBase # "" THEN [t EXCEPT !.base = TRUE] ELSE t

\* s.WithBase(base)
Session_WithBase(s, base) ==
    LET d == [s EXCEPT !.base = FALSE]
        t == [d EXCEPT !.ctxBase = base, !.optsBase = base]
    IN IF t.optsBase # "" THEN [t EXCEPT !.base = TRUE] ELSE t

\* s.WithLogger(log); a console module that was loaded before is loaded
\* again or taken from the cache of require (reload)
Session_WithLogger(s, log, reload) ==
    LET t == [s EXCEPT !.log = log]
    IN IF t.log # NoLogger
       THEN [t EXCEPT !.console = TRUE,
                      !.bound = IF s.console /\ ~reload THEN s.bound ELSE t.log]
       ELSE t

\* the functions NewConsole exports: the level and the logger method of each
ConsoleLevel(name) == IF name = "log" THEN "info" ELSE name
ConsoleMethod(name) ==
    IF name = "debug" THEN "Debugf"
    ELSE IF name = "warn" THEN "Warnf"
    ELSE IF name = "error" THEN "Errorf"
    ELSE "Infof"

\* strings.IndexAny(arg, "%") != -1
HasPercent(str) == str \in {"%d", "%s"}

\* the outcome of a console function: the lines logged, whether it raised
\* and what, and the value returned otherwise
Logged(lines, raised, exc) == [lines |-> lines, raised |-> raised, exc |-> exc]

\* the function of c.logger that asks the error sink at level "error" too
logger_AsksSinkOnError(s, name, args, sink) ==
    LET a == exportArgs(args)
        level == ConsoleLevel(name)
    IN IF Len(a) = 0 THEN Logged(<<>>, TRUE, [msg |-> errArgCount])
       ELSE LET format == a[1].t = "string" /\ HasPercent(a[1].s)
                line == IF format
                        THEN [logger |-> s.bound, method |-> ConsoleMethod(name),
                              format |-> a[1].s, args |-> Tail(a)]
                        ELSE [logger |-> s.bound, method |-> ConsoleMethod(name),
                              format |-> "%+v", args |-> <<a>>]
                data == IF format THEN [sprintf |-> a[1].s, args |-> Tail(a)]
                        ELSE [sprintf |-> "", args |-> a]
                err == [level |-> level, data |-> data]
            IN IF ~sink THEN Logged(<<line>>, TRUE, err)
               ELSE Logged(<<line>>, FALSE, [msg |-> "undefined"])

\* the function c.logger(level, logf) returns, applied to a call; sink is
\* what c.sess.error(err) answers if it is asked; a format is a string
\* with a "%" in it
Console_logger(s, name, args, sink) ==
    LET a == exportArgs(args)
        level == ConsoleLevel(name)
    IN IF Len(a) = 0 THEN Logged(<<>>, TRUE, [msg |-> errArgCount])
       ELSE LET format == a[1].t = "string" /\ HasPercent(a[1].s)
                line == IF format
                        THEN [logger |-> s.bound, method |-> ConsoleMethod(name),
                              format |-> a[1].s, args |-> Tail(a)]
                        ELSE [logger |-> s.bound, method |-> ConsoleMethod(name),
                              format |-> "%+v", args |-> <<a>>]
                data == IF format THEN [sprintf |-> a[1].s, args |-> Tail(a)]
                        ELSE [sprintf |-> "", args |-> a]
                err == [level |-> level, data |-> data]
            IN IF level = "error" \/ ~sink THEN Logged(<<line>>, TRUE, err)
               ELSE Logged(<<line>>, FALSE, [msg |-> "undefined"])

\* what scripts pass to the console
ConsoleArgs ==
    {<<>>, <<ArgStr("hi")>>, <<ArgStr("%d"), ArgInt(1)>>, <<ArgStr("%s")>>, <<ArgInt(1)>>}
ConsoleNames == {"log", "debug", "info", "warn", "error"}

InitOptions ==
    /\ it = newValueMapper("qs", [items |-> <<>>, endErr |-> NoErr, passes |-> 0],
                           [v \in StoredVals |-> [val |-> v, err |-> NoErr]])
    /\ scan = <<>> /\ look = <<>> /\ cancelled = FALSE /\ out = <<>> /\ dst = <<>>
    /\ last = NoCall /\ pc = "call" /\ iter = 0
    /\ objs = <<>> /\ paths = <<>> /\ arrays = <<>> /\ ret = NoRet
    /\ inp = NoInp /\ res = NoRes /\ refs = <<>>
    /\ rec = NewSession

\* the embedding program sets the base IRI
WithBase ==
    /\ rec.fn = "session" /\ rec.calls < MaxCalls
    /\ \E base \in Bases :
           rec' = [Session_WithBase(rec, base) EXCEPT !.given = base,
                                                      !.calls = rec.calls + 1]
    /\ UNCHANGED <<mvars, bvars, inp, res, refs>>

\* the embedding program sets, replaces or removes the logger
WithLogger ==
    /\ rec.fn = "session" /\ rec.calls < MaxCalls
    /\ \E log \in Loggers, reload \in BOOLEAN :
           rec' = [Session_WithLogger(rec, log, reload) EXCEPT !.calls = rec.calls + 1]
    /\ UNCHANGED <<mvars, bvars, inp, res, refs>>

\* a script calls a function of the global console
ConsoleCall ==
    /\ rec.fn = "session" /\ rec.calls < MaxCalls /\ rec.console
    /\ \E name \in ConsoleNames, args \in ConsoleArgs, sink \in BOOLEAN :
           LET r == Console_logger(rec, name, args, sink)
           IN /\ inp' = [fn |-> name, args |-> args, sink |-> sink]
              /\ res' = [fn |-> name, lines |-> r.lines, raised |-> r.raised,
                         exc |-> r.exc]
              /\ rec' = [rec EXCEPT !.logged = rec.logged \o r.lines,
                                    !.calls = rec.calls + 1]
    /\ UNCHANGED <<mvars, bvars, refs>>

NextOptions ==
    \/ WithBase
    \/ WithLogger
    \/ ConsoleCall

SpecOptions == InitOptions /\ [][NextOptions]_vars

\* C27: whatever WithBase calls were made, the global "base" is defined
\* exactly if the JSON-LD base option is not empty, and once a call was
\* made "@base" of the JSON-LD context is the base of the latest call.
C27_Base ==
    rec.fn = "session" =>
        /\ rec.base <=> rec.optsBase # ""
        /\ rec.given # NoEntry => rec.ctxBase = rec.given

\* the latest WithBase call of a session gave the empty base
C27_Witness ==
    /\ rec.fn = "session" /\ rec.calls = 2 /\ rec.given = ""
    /\ ~rec.base /\ rec.ctxBase = "" /\ rec.optsBase = ""

\* C28 as claimed: whenever the global "console" is registered, the
\* session's logger is not nil.
C28_Claim ==
    (rec.fn = "session" /\ rec.console) => rec.log # NoLogger

\* C29: a console call without arguments raises errArgCount and logs
\* nothing; a call at level "error" logs its message and raises an
\* exception with the level and the data; a call of log, debug, info or
\* warn logs its message, raises exactly if the error sink answers false,
\* and returns undefined otherwise.
C29_Console ==
    res.fn \in ConsoleNames =>
        /\ Len(inp.args) = 0 =>
               (res.raised /\ res.exc = [msg |-> errArgCount] /\ res.lines = <<>>)
        /\ (Len(inp.args) > 0 /\ res.fn = "error") =>
               /\ Len(res.lines) = 1 /\ res.lines[1].method = "Errorf"
               /\ res.raised /\ res.exc.level = "error"
               /\ res.exc.data.args \in {inp.args, Tail(inp.args)}
        /\ (Len(inp.args) > 0 /\ res.fn # "error") =>
               /\ Len(res.lines) = 1
               /\ res.raised <=> ~inp.sink
               /\ res.raised => res.exc.level = ConsoleLevel(res.fn)
               /\ ~res.raised => res.exc = [msg |-> "undefined"]

\* console.error("hi") raised although the error sink would have accepted
C29_Witness ==
    /\ res.fn = "error" /\ inp.args = <<ArgStr("hi")>> /\ inp.sink
    /\ res.raised /\ res.exc.level = "error" /\ Len(res.lines) = 1

====
